---------------------------- MODULE Spec2Model ----------------------------
(***************************************************************************)
(* gowebdavd: the supervisor (daemon.Start / Stop / Status), the PID-file  *)
(* registry (pidfile.file) and the process manager (process.Manager).      *)
(*                                                                         *)
(* Every supervisor command runs in its own short-lived OS process, so a   *)
(* command is modelled as a sequence of atomic steps, one per system call  *)
(* it makes on the shared state (the PID file and the process table).      *)
(* Steps of different invocations interleave freely.                       *)
(***************************************************************************)
EXTENDS Integers, Sequences, FiniteSets, TLC

(* ------------------------------ bounds -------------------------------- *)

\* Process identifiers handed out by the operating system are 1..MaxPid.
MaxPid == 2

\* Number of supervisor invocations (commands issued) in one behaviour; any
\* number of them may be in progress at once.
MaxCmds == 2

\* Number of calls made on the registry in one behaviour when it is used on
\* its own (Write, Write, Read needs three).
MaxCalls == 3

\* The largest pid written to the registry when it is used on its own (two
\* decimal digits, so that Itoa and Atoi handle more than one digit).
MaxWritten == 12

\* Number of registry handles that lock the same path, each in a process of
\* its own.
MaxHandles == 2

\* The largest descriptor number a process can have open (its descriptor
\* limit); 0..2 are the standard streams.
MaxFd == 3

\* Number of files created at the registry's path in one behaviour (each is a
\* new inode).
MaxInodes == 2

\* Longest URL path, in segments, given to the traversal guard
\* ("/a/../../s" has five: the empty one before the first slash, a, .., .., s).
MaxSegs == 5

\* Longest URL path, in segments, of a request given to the whole chain.
MaxMuxSegs == 3

\* Number of requests the Serving Process accepts in one behaviour.
MaxRequests == 2

\* Number of interruption signals sent to the Serving Process in one
\* behaviour.
MaxSignals == 1

\* The largest process identifier of the system the liveness probe is used
\* on; the probing process itself is one of them.
MaxProbePid == 2

\* Number of probes made in one behaviour.
MaxProbes == 3
\* timestamps of the lock requests are 0..MaxNow
MaxNow == 1
\* lock-system calls and requests of the other clients
MaxDavCalls == 2

Inv  == 1..MaxCmds
Pids == 1..MaxPid

VARIABLES
    file,         \* the PID file: [exists, data], data a sequence of characters
    procs,        \* the OS process table: pid -> kind of process
    inv,          \* per invocation: command, position, locals, trace, result
    everSpawned   \* history: pids ever returned by a successful cmd.Start()

\* the supervisor's state
supvars == <<procs, inv, everSpawned>>

\* The registry (package pidfile) used on its own, through its interface.
VARIABLES
    hist          \* the calls made on one handle so far, oldest first

regvars == <<hist>>

\* The registry lock (file.Lock / file.Unlock) of both builds.
VARIABLES
    platform,     \* the build: "unix" (flock) or "windows" (CreateFileW)
    ino,          \* the inode the registry's path names, 0 when there is no file
    inodes,       \* number of files created at the path so far
    fds,          \* per handle's process: what each descriptor refers to
    flock,        \* per inode: the open file description holding its flock
    hnd,          \* per handle (a pidfile.file): its fd field and position
    last          \* the call that returned last, and what it returned

lockvars == <<platform, ino, inodes, fds, flock, hnd, last>>

\* The handler chain of the Serving Process (package server).
VARIABLES
    logger,       \* the Logger given to New: "nil", "disabled" or "enabled"
    req,          \* the request being served: its URL path and method
    at,           \* the handler that has the request now
    visited,      \* the handlers the request has reached, in order
    resp          \* the response status written, 0 while there is none

srvvars == <<logger, req, at, visited, resp>>

\* The Serving Process (WebDAV.Start, WebDAV.shutdown).
VARIABLES
    run           \* Start's position, the listener, the two channels, the serve
                  \* loop, the shutdown deadline and Start's result

runvars == <<run>>

\* The delegated handler (webdav.Handler) and its lock system.
VARIABLES
    dav,          \* the lock strategy, the locks held, the files of the folder,
                  \* the clock and the client that replaces a file
    reply         \* the last call or request made, with its result

davvars == <<dav, reply>>

\* The command line (main, handleStartOrRun) of start and run.
VARIABLES
    cli           \* the flags given, the position, the arguments of the child

clivars == <<cli>>

\* The liveness probe (Manager.IsRunning) of both builds.
VARIABLES
    probe         \* the processes of the system and the probes made

prbvars == <<probe>>

\* What commands run one after the other found and left (an observer).
VARIABLES
    seen          \* per invocation: the registry and the recorded process's
                  \* liveness when it began, the registry when it returned

obsvars == <<seen>>

\* state of the components a supervisor command does not touch
beside == <<regvars, lockvars, srvvars, runvars, davvars, clivars, prbvars>>

aside == <<beside, obsvars>>

vars == <<file, procs, inv, everSpawned, aside>>

\* a component that takes no part in a specification stays as it is here
NoRegistryCalls == hist = <<>>

NoLocking ==
    /\ platform = "unix" /\ ino = 0 /\ inodes = 0
    /\ fds = <<>> /\ flock = <<>> /\ hnd = <<>> /\ last = <<>>

NoRequests ==
    /\ logger = "nil" /\ req = <<>> /\ at = "none"
    /\ visited = <<>> /\ resp = 0

NoServing == run = <<>>

NoDav == dav = <<>> /\ reply = <<>>

NoCli == cli = <<>>

NoProbes == probe = <<>>

NoRuns == seen = <<>>

(* ------------------------- strconv.Itoa / Atoi ------------------------- *)

DigitChars == <<"0", "1", "2", "3", "4", "5", "6", "7", "8", "9">>

IsDigit(c) == \E d \in 1..10 : DigitChars[d] = c

DigitVal(c) == (CHOOSE d \in 1..10 : DigitChars[d] = c) - 1

RECURSIVE NatDigits(_)
NatDigits(n) ==
    IF n < 10 THEN <<DigitChars[n + 1]>>
    ELSE Append(NatDigits(n \div 10), DigitChars[(n % 10) + 1])

\* strconv.Itoa
Itoa(n) == IF n < 0 THEN <<"-">> \o NatDigits(0 - n) ELSE NatDigits(n)

\* the digits of s after an optional sign
AtoiBody(s) ==
    IF Len(s) > 0 /\ s[1] \in {"+", "-"} THEN Tail(s) ELSE s

\* strconv.Atoi returns a nil error
AtoiOk(s) ==
    /\ Len(AtoiBody(s)) > 0
    /\ \A k \in 1..Len(AtoiBody(s)) : IsDigit(AtoiBody(s)[k])

RECURSIVE DigitsVal(_)
DigitsVal(s) ==
    IF Len(s) = 0 THEN 0
    ELSE 10 * DigitsVal(SubSeq(s, 1, Len(s) - 1)) + DigitVal(s[Len(s)])

\* strconv.Atoi's value when AtoiOk
AtoiVal(s) ==
    IF Len(s) > 0 /\ s[1] = "-" THEN 0 - DigitsVal(AtoiBody(s))
    ELSE DigitsVal(AtoiBody(s))

(* ----------------------------- pidfile.file ---------------------------- *)

Absent == [exists |-> FALSE, data |-> <<>>]

Content(s) == [exists |-> TRUE, data |-> s]

\* file.Read: (pid, err); err is "nil", "NotFound" (os.ReadFile failed) or
\* "Corrupt" (strconv.Atoi failed)
Read(f) ==
    IF ~f.exists THEN [pid |-> 0, err |-> "NotFound"]
    ELSE IF ~AtoiOk(f.data) THEN [pid |-> 0, err |-> "Corrupt"]
    ELSE [pid |-> AtoiVal(f.data), err |-> "nil"]

\* faulty variant: the pid is written as a line, with a newline after it
WriteLine(pid) == Content(Append(Itoa(pid), "\n"))

\* file.Write succeeding: os.WriteFile truncates and writes Itoa(pid)
Write(pid) == Content(Itoa(pid))

\* file.Write failing: the file could not be opened (unchanged), or it was
\* created/truncated and the write itself failed (left empty)
WriteFailures(f) == {f, Content(<<>>)}

\* faulty variant: a missing file is not an error (as with rm -f)
RemoveIgnoresMissing(f) == [ok |-> TRUE, file |-> Absent]

\* file.Remove: os.Remove; an error (ENOENT) when the file is absent
Remove(f) == [ok |-> f.exists, file |-> Absent]

(* --------------------------- process.Manager --------------------------- *)

Live(p) == p \in Pids /\ procs[p] # "none"

\* the live Serving Processes (spawned by start, serving or draining)
Serving == {p \in Pids : procs[p] \in {"serving", "draining"}}

\* Manager.IsRunning: kill(pid, 0) == nil / OpenProcess + GetExitCodeProcess.
\* Pid 0 names no process of its own: kill(0, 0) probes the caller's own
\* process group and succeeds, OpenProcess(0) fails.
IsRunning(pid) ==
    IF pid \in Pids THEN {procs[pid] # "none"}
    ELSE IF pid = 0 THEN {TRUE, FALSE}
    ELSE {FALSE}

\* Manager.Terminate: the outcomes [ok, procs] of SIGTERM (the Serving Process
\* starts its graceful shutdown, another process takes the default action) and
\* of TerminateProcess (the process is gone); an error changes nothing.
Terminate(pid) ==
    IF ~Live(pid) THEN {[ok |-> FALSE, procs |-> procs]}
    ELSE {[ok |-> FALSE, procs |-> procs],
          [ok |-> TRUE, procs |-> [procs EXCEPT ![pid] = "none"]],
          [ok |-> TRUE,
           procs |-> [procs EXCEPT ![pid] =
                        IF @ = "other" THEN "none" ELSE "draining"]]}

\* Manager.Kill: SIGKILL / TerminateProcess
Kill(pid) ==
    IF ~Live(pid) THEN {[ok |-> FALSE, procs |-> procs]}
    ELSE {[ok |-> FALSE, procs |-> procs],
          [ok |-> TRUE, procs |-> [procs EXCEPT ![pid] = "none"]]}

(* ----------------------------- invocations ----------------------------- *)

Idle ==
    [cmd |-> "none", pc |-> "idle", pid |-> 0, err |-> "nil", child |-> 0,
     ops |-> <<>>, report |-> "", ret |-> "", peers |-> {}]

Active(i) == inv[i].pc \notin {"idle", "done"}

Done(i) == inv[i].pc = "done"

Op(name, ok) == [op |-> name, ok |-> ok]

\* the record of invocation i after performing operation name, now at pc
Step(i, pc, name, ok) ==
    [inv[i] EXCEPT !.pc = pc, !.ops = Append(@, Op(name, ok))]

\* the command prints report (fmt.Printf) and returns ret ("nil" or the error)
Return(r, report, ret) ==
    [r EXCEPT !.pc = "done", !.report = report, !.ret = ret]

Set(i, r) == inv' = [inv EXCEPT ![i] = r]

\* pids the operating system can hand to a new process: not live, and not the
\* unreaped child of a start command still in progress
FreePids ==
    {p \in Pids : procs[p] = "none" /\ \A j \in Inv : ~(Active(j) /\ inv[j].child = p)}

Calls(i, name) == {k \in 1..Len(inv[i].ops) : inv[i].ops[k].op = name}

NCalls(i, name) == Cardinality(Calls(i, name))

(* ------------------------------- Init ---------------------------------- *)

\* what the PID file may hold when the first command runs: nothing, garbage,
\* or the pid written by an earlier `start`. Process identifiers are
\* interchangeable, so that pid is taken to be 1.
InitFiles == {Absent, Content(<<"x">>), Content(Itoa(1))}

\* the process table when the first command runs: no process, or the Serving
\* Process left by an earlier `start`
InitProcs ==
    {pr \in [Pids -> {"none", "serving"}] :
        \A p \in Pids : pr[p] = "serving" => p = 1}

\* a Serving Process left by an earlier `start` is the one that start recorded
Init ==
    /\ file \in InitFiles
    /\ procs \in InitProcs
    /\ \A p \in Pids : procs[p] = "serving" => file = Content(Itoa(p))
    /\ inv = [i \in Inv |-> Idle]
    /\ everSpawned = {p \in Pids : procs[p] = "serving"}
    /\ NoRegistryCalls /\ NoLocking /\ NoRequests
    /\ NoServing /\ NoDav /\ NoCli /\ NoProbes /\ NoRuns

\* main: invocation i of `start`, `stop` or `status` begins (daemon.New, then
\* the command, whose first statement is the Read). Invocations are numbered
\* in the order in which they begin; peers are those in progress at that time.
Begin(i, c) ==
    /\ inv[i].pc = "idle"
    /\ IF i = 1 THEN TRUE ELSE inv[i - 1].pc # "idle"

Fresh(i, c) ==
    [Idle EXCEPT !.cmd = c, !.pc = "read", !.peers = {k \in Inv : Active(k)}]

\* pid, err := d.pidFile.Read(), by a new invocation of command c
FirstRead(i, c) ==
    [Fresh(i, c) EXCEPT !.pid = Read(file).pid, !.err = Read(file).err,
                        !.ops = <<Op("Read", Read(file).err = "nil")>>]

(* ---------------------------- Daemon.Start ----------------------------- *)

\* pid, err := d.pidFile.Read()
StartRead(i) ==
    /\ Begin(i, "start")
    /\ LET r == FirstRead(i, "start") IN
       Set(i, [r EXCEPT !.pc = IF r.err = "nil" THEN "isrunning" ELSE "spawn"])
    /\ UNCHANGED <<file, procs, everSpawned>>

\* faulty variant: the record is removed although its owner is running
StartIsRunningRemoves(i) ==
    /\ inv[i].cmd = "start" /\ inv[i].pc = "isrunning"
    /\ \E b \in IsRunning(inv[i].pid) :
         Set(i, IF b
                THEN Return(Step(i, "done", "IsRunning", TRUE),
                            "Service is already running", "nil")
                ELSE Step(i, "remove", "IsRunning", FALSE))
    /\ file' = Remove(file).file
    /\ UNCHANGED <<procs, everSpawned>>

\* if err == nil && d.procMgr.IsRunning(pid) { "already running"; return nil }
StartIsRunning(i) ==
    /\ inv[i].cmd = "start" /\ inv[i].pc = "isrunning"
    /\ \E b \in IsRunning(inv[i].pid) :
         Set(i, IF b
                THEN Return(Step(i, "done", "IsRunning", TRUE),
                            "Service is already running", "nil")
                ELSE Step(i, "remove", "IsRunning", FALSE))
    /\ UNCHANGED <<file, procs, everSpawned>>

\* faulty variant: the stale record is left in place
StartRemoveSkipped(i) ==
    /\ inv[i].cmd = "start" /\ inv[i].pc = "remove"
    /\ Set(i, Step(i, "spawn", "Remove", Remove(file).ok))
    /\ UNCHANGED <<file, procs, everSpawned>>

\* if err == nil { d.pidFile.Remove() }
StartRemove(i) ==
    /\ inv[i].cmd = "start" /\ inv[i].pc = "remove"
    /\ file' = Remove(file).file
    /\ Set(i, Step(i, "spawn", "Remove", Remove(file).ok))
    /\ UNCHANGED <<procs, everSpawned>>

\* cmd.Start() fails: return "failed to start service"
StartSpawnFail(i) ==
    /\ inv[i].cmd = "start" /\ inv[i].pc = "spawn"
    /\ Set(i, Return(Step(i, "done", "Spawn", FALSE), "", "failed to start service"))
    /\ UNCHANGED <<file, procs, everSpawned>>

\* cmd.Start() succeeds: a new detached Serving Process with pid p
StartSpawn(i) ==
    /\ inv[i].cmd = "start" /\ inv[i].pc = "spawn"
    /\ \E p \in FreePids :
         /\ procs' = [procs EXCEPT ![p] = "serving"]
         /\ everSpawned' = everSpawned \cup {p}
         /\ Set(i, [Step(i, "write", "Spawn", TRUE) EXCEPT !.child = p])
    /\ UNCHANGED file

\* faulty variant: the file is opened for appending instead of being truncated
StartWriteAppends(i) ==
    /\ inv[i].cmd = "start" /\ inv[i].pc = "write"
    /\ file' = Content(file.data \o Itoa(inv[i].child))
    /\ Set(i, Return(Step(i, "done", "Write", TRUE), "Service started", "nil"))
    /\ UNCHANGED <<procs, everSpawned>>

\* d.pidFile.Write(cmd.Process.Pid) succeeds: "Service started"; return nil
StartWrite(i) ==
    /\ inv[i].cmd = "start" /\ inv[i].pc = "write"
    /\ file' = Write(inv[i].child)
    /\ Set(i, Return(Step(i, "done", "Write", TRUE), "Service started", "nil"))
    /\ UNCHANGED <<procs, everSpawned>>

\* d.pidFile.Write(cmd.Process.Pid) fails
StartWriteFail(i) ==
    /\ inv[i].cmd = "start" /\ inv[i].pc = "write"
    /\ file' \in WriteFailures(file)
    /\ Set(i, Step(i, "kill", "Write", FALSE))
    /\ UNCHANGED <<procs, everSpawned>>

\* faulty variant: the error is returned without killing the child
StartKillForgotten(i) ==
    /\ inv[i].cmd = "start" /\ inv[i].pc = "kill"
    /\ Set(i, Return(Step(i, "done", "ChildKill", TRUE), "", "failed to write PID"))
    /\ UNCHANGED <<file, procs, everSpawned>>

\* cmd.Process.Kill(); return "failed to write PID"
StartKill(i) ==
    /\ inv[i].cmd = "start" /\ inv[i].pc = "kill"
    /\ procs' = [procs EXCEPT ![inv[i].child] = "none"]
    /\ Set(i, Return(Step(i, "done", "ChildKill", TRUE), "", "failed to write PID"))
    /\ UNCHANGED <<file, everSpawned>>

(* ----------------------------- Daemon.Stop ----------------------------- *)

\* faulty variant: a Read error is returned to the caller
StopReadReturnsError(i) ==
    /\ Begin(i, "stop")
    /\ LET r == FirstRead(i, "stop") IN
       Set(i, IF r.err = "nil" THEN [r EXCEPT !.pc = "isrunning"]
              ELSE Return(r, "", "failed to read PID file"))
    /\ UNCHANGED <<file, procs, everSpawned>>

\* pid, err := d.pidFile.Read(); if err != nil { "not running"; return nil }
StopRead(i) ==
    /\ Begin(i, "stop")
    /\ LET r == FirstRead(i, "stop") IN
       Set(i, IF r.err = "nil" THEN [r EXCEPT !.pc = "isrunning"]
              ELSE Return(r, "Service is not running", "nil"))
    /\ UNCHANGED <<file, procs, everSpawned>>

\* if !d.procMgr.IsRunning(pid)
StopIsRunning(i) ==
    /\ inv[i].cmd = "stop" /\ inv[i].pc = "isrunning"
    /\ \E b \in IsRunning(inv[i].pid) :
         Set(i, Step(i, IF b THEN "terminate" ELSE "removestale", "IsRunning", b))
    /\ UNCHANGED <<file, procs, everSpawned>>

\* { d.pidFile.Remove(); "not running"; return nil }
StopRemoveStale(i) ==
    /\ inv[i].cmd = "stop" /\ inv[i].pc = "removestale"
    /\ file' = Remove(file).file
    /\ Set(i, Return(Step(i, "done", "Remove", Remove(file).ok),
                     "Service is not running", "nil"))
    /\ UNCHANGED <<procs, everSpawned>>

\* faulty variant: Kill follows Terminate whether or not Terminate failed
StopTerminateThenKill(i) ==
    /\ inv[i].cmd = "stop" /\ inv[i].pc = "terminate"
    /\ \E o \in Terminate(inv[i].pid) :
         /\ procs' = o.procs
         /\ Set(i, Step(i, "kill", "Terminate", o.ok))
    /\ UNCHANGED <<file, everSpawned>>

\* if err := d.procMgr.Terminate(pid); err != nil
StopTerminate(i) ==
    /\ inv[i].cmd = "stop" /\ inv[i].pc = "terminate"
    /\ \E o \in Terminate(inv[i].pid) :
         /\ procs' = o.procs
         /\ Set(i, Step(i, IF o.ok THEN "remove" ELSE "kill", "Terminate", o.ok))
    /\ UNCHANGED <<file, everSpawned>>

\* faulty variant: the record is removed before the Kill error is returned
StopKillRemovesFirst(i) ==
    /\ inv[i].cmd = "stop" /\ inv[i].pc = "kill"
    /\ \E o \in Kill(inv[i].pid) :
         /\ procs' = o.procs
         /\ file' = IF o.ok THEN file ELSE Remove(file).file
         /\ Set(i, IF o.ok THEN Step(i, "remove", "Kill", TRUE)
                   ELSE Return(Step(i, "done", "Kill", FALSE),
                               "", "failed to stop service"))
    /\ UNCHANGED everSpawned

\* if err := d.procMgr.Kill(pid); err != nil { return "failed to stop service" }
StopKill(i) ==
    /\ inv[i].cmd = "stop" /\ inv[i].pc = "kill"
    /\ \E o \in Kill(inv[i].pid) :
         /\ procs' = o.procs
         /\ Set(i, IF o.ok THEN Step(i, "remove", "Kill", TRUE)
                   ELSE Return(Step(i, "done", "Kill", FALSE),
                               "", "failed to stop service"))
    /\ UNCHANGED <<file, everSpawned>>

\* d.pidFile.Remove(); "Service stopped"; return nil
StopRemove(i) ==
    /\ inv[i].cmd = "stop" /\ inv[i].pc = "remove"
    /\ file' = Remove(file).file
    /\ Set(i, Return(Step(i, "done", "Remove", Remove(file).ok),
                     "Service stopped", "nil"))
    /\ UNCHANGED <<procs, everSpawned>>

(* ---------------------------- Daemon.Status ---------------------------- *)

\* faulty variant: the supervisor remembers that status has been asked before
StatusReadRemembers(i) ==
    /\ Begin(i, "status")
    /\ LET r == FirstRead(i, "status")
           again == \E k \in Inv : inv[k].pc = "done" /\ inv[k].cmd = "status"
       IN  Set(i, IF r.err = "nil" THEN [r EXCEPT !.pc = "isrunning"]
                  ELSE Return(r, IF again THEN "Service is still not running"
                                 ELSE "Service is not running", "nil"))
    /\ UNCHANGED <<file, procs, everSpawned>>

\* pid, err := d.pidFile.Read(); if err != nil { "not running"; return nil }
StatusRead(i) ==
    /\ Begin(i, "status")
    /\ LET r == FirstRead(i, "status") IN
       Set(i, IF r.err = "nil" THEN [r EXCEPT !.pc = "isrunning"]
              ELSE Return(r, "Service is not running", "nil"))
    /\ UNCHANGED <<file, procs, everSpawned>>

\* faulty variant: status clears the record of a running service
StatusIsRunningRemoves(i) ==
    /\ inv[i].cmd = "status" /\ inv[i].pc = "isrunning"
    /\ \E b \in IsRunning(inv[i].pid) :
         Set(i, IF b
                THEN Return(Step(i, "done", "IsRunning", TRUE),
                            "Service is running", "nil")
                ELSE Step(i, "removestale", "IsRunning", FALSE))
    /\ file' = Remove(file).file
    /\ UNCHANGED <<procs, everSpawned>>

\* if d.procMgr.IsRunning(pid) { "Service is running (PID: %d)"; return nil }
StatusIsRunning(i) ==
    /\ inv[i].cmd = "status" /\ inv[i].pc = "isrunning"
    /\ \E b \in IsRunning(inv[i].pid) :
         Set(i, IF b
                THEN Return(Step(i, "done", "IsRunning", TRUE),
                            "Service is running", "nil")
                ELSE Step(i, "removestale", "IsRunning", FALSE))
    /\ UNCHANGED <<file, procs, everSpawned>>

\* faulty variant: the stale record is reported but not removed
StatusRemoveStaleSkipped(i) ==
    /\ inv[i].cmd = "status" /\ inv[i].pc = "removestale"
    /\ Set(i, Return(Step(i, "done", "Remove", Remove(file).ok),
                     "PID file exists but process not found", "nil"))
    /\ UNCHANGED <<file, procs, everSpawned>>

\* else { "PID file exists but process %d not found"; d.pidFile.Remove() }
StatusRemoveStale(i) ==
    /\ inv[i].cmd = "status" /\ inv[i].pc = "removestale"
    /\ file' = Remove(file).file
    /\ Set(i, Return(Step(i, "done", "Remove", Remove(file).ok),
                     "PID file exists but process not found", "nil"))
    /\ UNCHANGED <<procs, everSpawned>>

(* ----------------------------- environment ----------------------------- *)

\* a process exits on its own: a crash, the end of a graceful shutdown, or an
\* unrelated process finishing
ProcExit(p) ==
    /\ procs[p] # "none"
    /\ procs' = [procs EXCEPT ![p] = "none"]
    /\ UNCHANGED <<file, inv, everSpawned>>

(* ------------------------------ the system ----------------------------- *)

Next ==
    \/ \E i \in Inv : StartRead(i) /\ UNCHANGED aside
    \/ \E i \in Inv : StartIsRunning(i) /\ UNCHANGED aside
    \/ \E i \in Inv : StartRemove(i) /\ UNCHANGED aside
    \/ \E i \in Inv : StartSpawnFail(i) /\ UNCHANGED aside
    \/ \E i \in Inv : StartSpawn(i) /\ UNCHANGED aside
    \/ \E i \in Inv : StartWrite(i) /\ UNCHANGED aside
    \/ \E i \in Inv : StartWriteFail(i) /\ UNCHANGED aside
    \/ \E i \in Inv : StartKill(i) /\ UNCHANGED aside
    \/ \E i \in Inv : StopRead(i) /\ UNCHANGED aside
    \/ \E i \in Inv : StopIsRunning(i) /\ UNCHANGED aside
    \/ \E i \in Inv : StopRemoveStale(i) /\ UNCHANGED aside
    \/ \E i \in Inv : StopTerminate(i) /\ UNCHANGED aside
    \/ \E i \in Inv : StopKill(i) /\ UNCHANGED aside
    \/ \E i \in Inv : StopRemove(i) /\ UNCHANGED aside
    \/ \E i \in Inv : StatusRead(i) /\ UNCHANGED aside
    \/ \E i \in Inv : StatusIsRunning(i) /\ UNCHANGED aside
    \/ \E i \in Inv : StatusRemoveStale(i) /\ UNCHANGED aside
    \/ \E p \in Pids : ProcExit(p) /\ UNCHANGED aside

Spec == Init /\ [][Next]_vars

(* ------------------------ what an invocation saw ----------------------- *)

\* invocation i performed operation name with outcome ok as its k-th call
Did(i, k, name, ok) ==
    Len(inv[i].ops) >= k /\ inv[i].ops[k] = Op(name, ok)

Begun(i) == inv[i].pc # "idle"

\* Unregistered: Read() found no record
SawUnregistered(i) == Begun(i) /\ inv[i].err = "NotFound"

\* RegisteredLive: the record was readable and IsRunning(ownerPid) was true
SawLive(i) == Did(i, 1, "Read", TRUE) /\ Did(i, 2, "IsRunning", TRUE)

\* RegisteredStale: the record was readable and IsRunning(ownerPid) was false
SawStale(i) == Did(i, 1, "Read", TRUE) /\ Did(i, 2, "IsRunning", FALSE)

\* invocation i takes a step
StepOf(i) == inv'[i] # inv[i]

\* invocation i, a command c, takes the step on which it returns
Returns(i, c) == inv[i].pc # "done" /\ inv'[i].pc = "done" /\ inv'[i].cmd = c

(* -------------------------------- claims ------------------------------- *)

\* C1: two concurrent `start` invocations that begin with no live record are
\* serialized by the registry lock: at most one of them spawns a Serving
\* Process, and the other one reports "already running" without spawning.
\* (j is concurrent with i when i was in progress at j's Read.)
C1_ConcurrentStartsSpawnOnce ==
    \A i \in Inv, j \in Inv :
        ( /\ inv[i].cmd = "start" /\ inv[j].cmd = "start"
          /\ i \in inv[j].peers
          /\ SawUnregistered(i) \/ SawStale(i) )
        => /\ ~(inv[i].child # 0 /\ inv[j].child # 0)
           /\ (Done(i) /\ Done(j) /\ inv[i].report = "Service started")
                 => inv[j].report = "Service is already running"

\* C2: at most one live Serving Process spawned by `start` exists at any time.
C2_AtMostOneServing == Cardinality(Serving) <= 1

\* the calls invocation i has made, in order
Trace(i) == [k \in 1..Len(inv[i].ops) |-> inv[i].ops[k].op]

\* the calls invocation i will have made after this step
TraceAfter(i) == [k \in 1..Len(inv'[i].ops) |-> inv'[i].ops[k].op]

\* C3, step by step: what each step of such an invocation does
C3_Step ==
    \A i \in Inv :
        ( /\ inv[i].cmd = "start" /\ inv[i].pc = "isrunning"
          /\ Live(inv[i].pid)
          /\ StepOf(i) )
        => /\ inv'[i].pc = "done"
           /\ inv'[i].report = "Service is already running"
           /\ inv'[i].ret = "nil"
           /\ inv'[i].child = 0
           /\ TraceAfter(i) = <<"Read", "IsRunning">>
           /\ file' = file
           /\ procs' = procs

\* C3, in every state: what such an invocation has done so far
C3_Done ==
    \A i \in Inv :
        (inv[i].cmd = "start" /\ SawLive(i))
        => /\ Done(i)
           /\ inv[i].report = "Service is already running"
           /\ inv[i].ret = "nil"
           /\ Trace(i) = <<"Read", "IsRunning">>

\* C3: a `start` that finds the record readable and its owner running spawns
\* nothing, neither writes nor removes the record (file and process table are
\* left as they were), reports "already running" and returns success; this
\* holds for every such invocation, however many there are.
C3_StartAlreadyRunningIsNoOp == []C3_Done /\ [][C3_Step]_vars

\* C3 witness: two starts in a row both found the service running
C3_Witness ==
    \A i \in {1, 2} :
        /\ inv[i].cmd = "start" /\ Done(i) /\ SawLive(i)
        /\ inv[i].report = "Service is already running"

\* the call invocation i makes on this step
CallOf(i) == inv'[i].ops[Len(inv'[i].ops)]

\* the last call invocation i has made
LastCall(i) == inv[i].ops[Len(inv[i].ops)]

\* C4, step by step: what each step of such an invocation does
C4_Step ==
    \A i \in Inv :
        (inv[i].cmd = "start" /\ inv[i].err \in {"nil", "NotFound"} /\ StepOf(i))
        => /\ inv[i].pc = "remove"
                => /\ file' = Absent
                   /\ inv'[i].pc = "spawn"
           /\ (inv[i].pc = "spawn" /\ CallOf(i) = Op("Spawn", TRUE))
                => /\ procs[inv'[i].child] = "none"
                   /\ procs' = [procs EXCEPT ![inv'[i].child] = "serving"]
                   /\ file' = file
           /\ (inv[i].pc = "write" /\ inv'[i].pc = "done" /\ inv'[i].ret = "nil")
                => /\ file' = Content(Itoa(inv[i].child))
                   /\ Read(file') = [pid |-> inv[i].child, err |-> "nil"]
                   /\ procs' = procs

\* C4, in every state: what such an invocation has done so far
C4_Done ==
    \A i \in Inv :
        ( /\ inv[i].cmd = "start" /\ Done(i) /\ inv[i].ret = "nil"
          /\ SawUnregistered(i) \/ SawStale(i) )
        => /\ inv[i].report = "Service started"
           /\ inv[i].child \in everSpawned
           /\ NCalls(i, "Spawn") = 1
           /\ Trace(i) = IF SawStale(i)
                          THEN <<"Read", "IsRunning", "Remove", "Spawn", "Write">>
                          ELSE <<"Read", "Spawn", "Write">>

\* C4: a `start` that found no record, or a stale one, and returns success
\* removed the stale record before spawning, spawned exactly one new Serving
\* Process, and leaves on return a record whose content is exactly the
\* decimal identifier of that process (nothing of the old content is kept).
C4_StartReplacesStaleRecord == []C4_Done /\ [][C4_Step]_vars

\* C4 witness: a start that found a stale record has returned success, and the
\* record names its child
C4_Witness ==
    \E i \in Inv :
        /\ inv[i].cmd = "start" /\ Done(i) /\ SawStale(i)
        /\ inv[i].report = "Service started"
        /\ file = Content(Itoa(inv[i].child))

\* C5, step by step: what each step of such an invocation does
C5_Step ==
    \A i \in Inv :
        (inv[i].cmd = "start" /\ StepOf(i))
        => /\ (inv[i].pc = "write" /\ CallOf(i) = Op("Write", FALSE))
                => /\ inv'[i].pc = "kill"
                   /\ procs' = procs
           /\ inv[i].pc = "kill"
                => /\ inv'[i].pc = "done"
                   /\ inv'[i].ret = "failed to write PID"
                   /\ inv'[i].report = ""
                   /\ procs'[inv[i].child] = "none"
                   /\ \A p \in Pids \ {inv[i].child} : procs'[p] = procs[p]
                   /\ file' = file

\* C5, in every state: what such an invocation has done so far
C5_Done ==
    \A i \in Inv :
        (inv[i].cmd = "start" /\ \E k \in 1..Len(inv[i].ops) : Did(i, k, "Write", FALSE))
        => \/ inv[i].pc = "kill"
           \/ /\ Done(i)
              /\ inv[i].ret = "failed to write PID"
              /\ inv[i].report # "Service started"
              /\ LastCall(i) = Op("ChildKill", TRUE)

\* C5: when Write fails after a successful spawn, `start` kills the process it
\* spawned and returns an error without reporting success; the spawned
\* process is not left running.
C5_WriteFailureKillsChild == []C5_Done /\ [][C5_Step]_vars

\* C5 witness: a start whose Write failed has returned, its child is gone
C5_Witness ==
    \E i \in Inv :
        /\ inv[i].cmd = "start" /\ Done(i)
        /\ \E k \in 1..Len(inv[i].ops) : Did(i, k, "Write", FALSE)
        /\ inv[i].ret = "failed to write PID"
        /\ procs[inv[i].child] = "none"

\* C6, step by step: what each step of such an invocation does
C6_Step ==
    \A i \in Inv :
        ( /\ inv[i].cmd = "start" /\ inv[i].pc = "spawn" /\ StepOf(i)
          /\ CallOf(i) = Op("Spawn", FALSE) )
        => /\ inv'[i].pc = "done"
           /\ inv'[i].ret = "failed to start service"
           /\ inv'[i].report = ""
           /\ inv'[i].child = 0
           /\ \A k \in 1..Len(inv'[i].ops) : inv'[i].ops[k].op # "Write"
           /\ file' = file
           /\ procs' = procs
           /\ Read(file').err = "nil" => Read(file').pid \in everSpawned

\* C6, in every state: what such an invocation has done so far
C6_Done ==
    \A i \in Inv :
        (inv[i].cmd = "start" /\ Done(i) /\ LastCall(i) = Op("Spawn", FALSE))
        => /\ inv[i].ret = "failed to start service"
           /\ inv[i].report = ""
           /\ NCalls(i, "Write") = 0

\* C6: when spawning fails, `start` returns an error, performs no Write, and
\* the registry is left with no record that names a process that was never
\* started (the stale record, if any, is gone).
C6_SpawnFailureLeavesNoRecord == []C6_Done /\ [][C6_Step]_vars

\* C6 witness: a start that had found a stale record failed to spawn, and no
\* record is left
C6_Witness ==
    \E i \in Inv :
        /\ inv[i].cmd = "start" /\ Done(i) /\ SawStale(i)
        /\ LastCall(i) = Op("Spawn", FALSE)
        /\ file = Absent

\* C7, step by step: what each step of such an invocation does
C7_Step ==
    \A i \in Inv :
        (inv[i].cmd = "stop" /\ SawLive(i) /\ StepOf(i))
        => /\ inv[i].pc = "terminate"
                => /\ CallOf(i).op = "Terminate"
                   /\ inv'[i].pc = IF CallOf(i).ok THEN "remove" ELSE "kill"
           /\ inv[i].pc = "kill"
                => /\ CallOf(i).op = "Kill"
                   /\ inv'[i].pc = IF CallOf(i).ok THEN "remove" ELSE "done"
           /\ inv[i].pc = "remove"
                => /\ CallOf(i).op = "Remove"
                   /\ file' = Absent
                   /\ inv'[i].pc = "done"
                   /\ inv'[i].report = "Service stopped"
                   /\ inv'[i].ret = "nil"

\* C7, in every state: what such an invocation has done so far
C7_Done ==
    \A i \in Inv :
        (inv[i].cmd = "stop" /\ SawLive(i))
        => /\ NCalls(i, "Terminate") <= 1
           /\ NCalls(i, "Kill") <= 1
           /\ NCalls(i, "Kill") = 1
                => Did(i, 3, "Terminate", FALSE) /\ inv[i].ops[4].op = "Kill"
           /\ Done(i)
                => \/ /\ Did(i, 3, "Terminate", TRUE)
                      /\ Trace(i) = <<"Read", "IsRunning", "Terminate", "Remove">>
                      /\ inv[i].report = "Service stopped" /\ inv[i].ret = "nil"
                   \/ /\ Did(i, 3, "Terminate", FALSE) /\ Did(i, 4, "Kill", TRUE)
                      /\ Trace(i) = <<"Read", "IsRunning", "Terminate", "Kill", "Remove">>
                      /\ inv[i].report = "Service stopped" /\ inv[i].ret = "nil"
                   \/ /\ Did(i, 3, "Terminate", FALSE) /\ Did(i, 4, "Kill", FALSE)
                      /\ Trace(i) = <<"Read", "IsRunning", "Terminate", "Kill">>
                      /\ inv[i].ret = "failed to stop service"

\* C7: `stop` on a live record calls Terminate first and exactly once, calls
\* Kill exactly once if and only if Terminate returned an error, and never
\* retries; if either succeeds the record is removed and the command reports
\* "stopped" and returns success.
C7_StopEscalatesOnce == []C7_Done /\ [][C7_Step]_vars

\* C7 witness: Terminate failed, the one Kill succeeded, the record is gone and
\* "stopped" was reported
C7_Witness ==
    \E i \in Inv :
        /\ inv[i].cmd = "stop" /\ Done(i) /\ SawLive(i)
        /\ Did(i, 3, "Terminate", FALSE) /\ Did(i, 4, "Kill", TRUE)
        /\ inv[i].report = "Service stopped"
        /\ file = Absent

\* C8, step by step: what each step of such an invocation does
C8_Step ==
    \A i \in Inv :
        ( /\ inv[i].cmd = "stop" /\ inv[i].pc = "kill" /\ StepOf(i)
          /\ CallOf(i) = Op("Kill", FALSE) )
        => /\ inv'[i].pc = "done"
           /\ inv'[i].ret = "failed to stop service"
           /\ inv'[i].report = ""
           /\ file' = file
           /\ procs' = procs

\* C8, in every state: what such an invocation has done so far
C8_Done ==
    \A i \in Inv :
        ( /\ inv[i].cmd = "stop" /\ Done(i)
          /\ Did(i, 3, "Terminate", FALSE) /\ Did(i, 4, "Kill", FALSE) )
        => /\ inv[i].ret = "failed to stop service"
           /\ inv[i].report # "Service stopped"
           /\ Trace(i) = <<"Read", "IsRunning", "Terminate", "Kill">>

\* C8: when both Terminate and the Kill fallback fail, `stop` returns an error
\* and does not touch the record: it is neither removed nor rewritten.
C8_StopFailureKeepsRecord == []C8_Done /\ [][C8_Step]_vars

\* C8 witness: stop has failed and the record it read is still there
C8_Witness ==
    \E i \in Inv :
        /\ inv[i].cmd = "stop" /\ Done(i)
        /\ inv[i].ret = "failed to stop service"
        /\ file = Content(Itoa(inv[i].pid))
        /\ Live(inv[i].pid)

C9_Step ==
    \A i \in Inv :
        (inv'[i].cmd \in {"stop", "status"} /\ StepOf(i))
        => /\ inv[i].pc = "removestale"
                => /\ CallOf(i).op = "Remove"
                   /\ file' = Absent
                   /\ procs' = procs
                   /\ inv'[i].pc = "done"
           /\ (inv[i].pc = "idle" /\ ~file.exists)
                => /\ file' = file
                   /\ procs' = procs
                   /\ inv'[i].pc = "done"

\* C9 as amended, in every state
C9_Done ==
    \A i \in Inv :
        inv[i].cmd \in {"stop", "status"}
        => /\ SawStale(i)
                => \/ inv[i].pc = "removestale"
                   \/ /\ Done(i)
                      /\ Trace(i) = <<"Read", "IsRunning", "Remove">>
                      /\ inv[i].ret = "nil"
                      /\ inv[i].report =
                            IF inv[i].cmd = "stop" THEN "Service is not running"
                            ELSE "PID file exists but process not found"
           /\ SawUnregistered(i)
                => /\ Done(i)
                   /\ Trace(i) = <<"Read">>
                   /\ inv[i].ret = "nil"
                   /\ inv[i].report = "Service is not running"

C10_Step ==
    \A i \in Inv :
        (inv[i].pc = "idle" /\ inv'[i].cmd = "stop" /\ ~file.exists /\ StepOf(i))
        => /\ inv'[i].pc = "done"
           /\ inv'[i].report = "Service is not running"
           /\ inv'[i].ret = "nil"
           /\ TraceAfter(i) = <<"Read">>
           /\ file' = Absent
           /\ procs' = procs

\* C10, in every state: what such an invocation has done so far
C10_Done ==
    \A i \in Inv :
        (inv[i].cmd = "stop" /\ SawUnregistered(i))
        => /\ Done(i)
           /\ inv[i].report = "Service is not running"
           /\ inv[i].ret = "nil"
           /\ NCalls(i, "Terminate") = 0
           /\ NCalls(i, "Kill") = 0

\* C10: `stop` on a registry with no record reports "not running", returns
\* success, sends no Terminate or Kill, and leaves the registry without a
\* record.
C10_StopUnregisteredIsNoOp == []C10_Done /\ [][C10_Step]_vars

\* C10 witness: the first command ever is a stop, it found no record and has
\* returned, and there is still no record
C10_Witness ==
    /\ inv[1].cmd = "stop" /\ Done(1) /\ SawUnregistered(1)
    /\ inv[1].ret = "nil"
    /\ inv[2].pc = "idle"
    /\ file = Absent

\* the pid a report names ("Service is running (PID: %d)", "PID file exists
\* but process %d not found"): the one this invocation read
ReportedPid(i) == inv[i].pid

\* C11, step by step: what each step of a status invocation does
C11_Step ==
    \A i \in Inv :
        (inv'[i].cmd = "status" /\ StepOf(i))
        => /\ procs' = procs
           /\ everSpawned' = everSpawned
           /\ CallOf(i).op \in {"Read", "IsRunning", "Remove"}
           /\ inv'[i].child = 0
           /\ file' # file
                => /\ inv[i].pc = "removestale" /\ SawStale(i)
                   /\ file' = Absent
           /\ (inv[i].pc = "idle" /\ Read(file).err = "nil")
                => inv'[i].pid = AtoiVal(file.data)
           /\ inv'[i].pc = "done" => inv'[i].ret = "nil"

\* C11, in every state: what a status invocation has done so far
C11_Done ==
    \A i \in Inv :
        inv[i].cmd = "status"
        => /\ NCalls(i, "Spawn") + NCalls(i, "Write") = 0
           /\ NCalls(i, "Terminate") + NCalls(i, "Kill") + NCalls(i, "ChildKill") = 0
           /\ NCalls(i, "Remove") > 0 => SawStale(i)
           /\ SawUnregistered(i)
                => /\ Done(i) /\ inv[i].report = "Service is not running"
                   /\ Trace(i) = <<"Read">>
           /\ SawLive(i)
                => /\ Done(i) /\ inv[i].report = "Service is running"
                   /\ ReportedPid(i) \in Pids
                   /\ Trace(i) = <<"Read", "IsRunning">>
           /\ Done(i) => inv[i].ret = "nil"

\* C11: `status` never spawns, terminates or kills a process and never writes
\* the record; its only possible side effect is removing a stale record. In
\* Unregistered it reports "not running", in RegisteredLive it reports running
\* with the recorded pid and leaves the record unchanged, and it always
\* returns success.
C11_StatusOnlyRemovesStale == []C11_Done /\ [][C11_Step]_vars

\* C11 witness: a status has reported the running service, and the record
\* still names the pid it reported
C11_Witness ==
    \E i \in Inv :
        /\ inv[i].cmd = "status" /\ Done(i) /\ SawLive(i)
        /\ inv[i].report = "Service is running"
        /\ file = Content(Itoa(ReportedPid(i)))
        /\ Live(ReportedPid(i))

\* C12: when the record is Corrupt, every command (`start`, `stop`, `status`)
\* surfaces the Corrupt error to its caller and leaves the record in place:
\* Read is its only call, so nothing is removed, written, spawned or signalled.
C12_CorruptIsSurfaced ==
    \A i \in Inv :
        (Begun(i) /\ inv[i].err = "Corrupt")
        => /\ Done(i)
           /\ inv[i].ret # "nil"
           /\ Trace(i) = <<"Read">>

\* C16: a command acquires the registry lock first, and if that fails it
\* aborts with an error: Lock is its only call (no retry, no Read, Write,
\* Remove, spawn or signal) and it does not report "not running".
C16_LockFailureAborts ==
    \A i \in Inv :
        Begun(i)
        => /\ inv[i].ops[1].op = "Lock"
           /\ ~inv[i].ops[1].ok
                => /\ Done(i)
                   /\ Trace(i) = <<"Lock">>
                   /\ inv[i].ret # "nil"
                   /\ inv[i].report # "Service is not running"

(* ----------------- the registry on its own (pidfile.File) -------------- *)

\* no supervisor command runs
NoCommands ==
    /\ procs = [p \in Pids |-> "none"]
    /\ inv = [i \in Inv |-> Idle]
    /\ everSpawned = {}

\* what the file at the registry's path may hold before the first call: no
\* file, or any bytes (an empty file, text, a number with or without a sign,
\* a number followed by a newline)
InitRecords ==
    {Absent, Content(<<>>), Content(<<"x">>), Content(<<"0">>),
     Content(<<"-", "1">>), Content(<<"+", "1">>), Content(<<"1">>),
     Content(<<"1", "2">>), Content(<<"1", "\n">>)}

\* the pids passed to Write: one and two digits
WritePids == {1, MaxPid, MaxWritten - 2, MaxWritten}

InitFile ==
    /\ file \in InitRecords
    /\ hist = <<>>
    /\ NoServing /\ NoDav /\ NoCli /\ NoProbes /\ NoRuns
    /\ NoCommands /\ NoLocking /\ NoRequests

\* one call on the registry: what it was given, what it returned, and the
\* file before and after it
Call(op, arg, ok, pid, err, post) ==
    [op |-> op, arg |-> arg, ok |-> ok, pid |-> pid, err |-> err,
     pre |-> file, post |-> post]

Record(c) ==
    /\ hist' = Append(hist, c)
    /\ file' = c.post
    /\ UNCHANGED <<supvars, lockvars, srvvars, runvars, davvars, clivars, prbvars,
                   obsvars>>

\* pid, err := f.Read()
FileRead ==
    /\ Len(hist) < MaxCalls
    /\ Record(Call("Read", 0, Read(file).err = "nil", Read(file).pid,
                   Read(file).err, file))

\* err := f.Write(p), err == nil
FileWrite(p) ==
    /\ Len(hist) < MaxCalls
    /\ Record(Call("Write", p, TRUE, 0, "nil", Write(p)))

\* err := f.Write(p), err != nil
FileWriteFail(p) ==
    /\ Len(hist) < MaxCalls
    /\ \E f \in WriteFailures(file) :
         Record(Call("Write", p, FALSE, 0, "WriteFailed", f))

\* err := f.Remove()
FileRemove ==
    /\ Len(hist) < MaxCalls
    /\ Record(Call("Remove", 0, Remove(file).ok, 0,
                   IF Remove(file).ok THEN "nil" ELSE "NotFound",
                   Remove(file).file))

NextFile ==
    \/ FileRead
    \/ \E p \in WritePids : FileWrite(p)
    \/ \E p \in WritePids : FileWriteFail(p)
    \/ FileRemove

SpecFile == InitFile /\ [][NextFile]_vars

\* the k-th call was op
Called(k, op) == k \in 1..Len(hist) /\ hist[k].op = op

\* a valid process identifier in decimal: a number greater than zero
ValidPidText(s) == AtoiOk(s) /\ AtoiVal(s) > 0

\* C13: Read() returns exactly one of three outcomes for every record state:
\* NotFound when the record is absent, Corrupt when the stored content is not
\* a valid process identifier (non-numeric, empty, zero or negative), and
\* otherwise the stored identifier; it never modifies the record.
C13_ReadClassifiesRecord ==
    \A k \in 1..Len(hist) :
        Called(k, "Read")
        => /\ hist[k].post = hist[k].pre
           /\ hist[k].err =
                IF ~hist[k].pre.exists THEN "NotFound"
                ELSE IF ~ValidPidText(hist[k].pre.data) THEN "Corrupt"
                ELSE "nil"
           /\ hist[k].err = "nil" => hist[k].pid = AtoiVal(hist[k].pre.data)

\* C14: for every valid positive identifier p, Write(p) followed by Read()
\* yields exactly p, whatever the record held before (absent, corrupt, or
\* another pid); Write(a) then Write(b) then Read() yields b, and Write(p)
\* twice is equivalent to once.
C14_WriteReadRoundTrip ==
    \A k \in 1..Len(hist) :
        (Called(k, "Write") /\ hist[k].ok)
        => /\ hist[k].arg > 0
           /\ Read(hist[k].post) = [pid |-> hist[k].arg, err |-> "nil"]
           /\ Called(k + 1, "Read")
                => /\ hist[k + 1].ok
                   /\ hist[k + 1].pid = hist[k].arg
           /\ (Called(k + 1, "Write") /\ hist[k + 1].ok /\ Called(k + 2, "Read"))
                => /\ hist[k + 2].ok
                   /\ hist[k + 2].pid = hist[k + 1].arg
           /\ ( /\ Called(k + 1, "Write") /\ hist[k + 1].ok
                /\ hist[k + 1].arg = hist[k].arg )
                => hist[k + 1].post = hist[k].post

\* C14 witness: over a corrupt record a two-digit pid was written, then another
\* pid, and Read returned the second
C14_Witness ==
    /\ Len(hist) = 3
    /\ hist[1].pre = Content(<<"x">>)
    /\ Called(1, "Write") /\ hist[1].ok /\ hist[1].arg = MaxWritten
    /\ Called(2, "Write") /\ hist[2].ok /\ hist[2].arg = 1
    /\ Called(3, "Read") /\ hist[3].ok /\ hist[3].pid = 1

\* C15: Remove() deletes the record, so that a following Read() yields
\* NotFound; when the record is absent Remove() fails with NotFound and
\* changes nothing, so Remove() twice in a row succeeds the first time (on an
\* existing record) and fails the second.
C15_RemoveDeletesOnce ==
    \A k \in 1..Len(hist) :
        Called(k, "Remove")
        => /\ hist[k].ok = hist[k].pre.exists
           /\ hist[k].err = IF hist[k].pre.exists THEN "nil" ELSE "NotFound"
           /\ hist[k].post = Absent
           /\ ~hist[k].pre.exists => hist[k].post = hist[k].pre
           /\ Called(k + 1, "Read")
                => ~hist[k + 1].ok /\ hist[k + 1].err = "NotFound"
           /\ Called(k + 1, "Remove")
                => /\ ~hist[k + 1].ok /\ hist[k + 1].err = "NotFound"
                   /\ hist[k + 1].post = hist[k].post

\* C15 witness: a record was removed, the second Remove failed, and Read
\* found nothing
C15_Witness ==
    /\ Len(hist) = 3
    /\ hist[1].pre = Content(<<"1">>)
    /\ Called(1, "Remove") /\ hist[1].ok
    /\ Called(2, "Remove") /\ ~hist[2].ok /\ hist[2].err = "NotFound"
    /\ Called(3, "Read") /\ hist[3].err = "NotFound"
    /\ file = Absent

(* --------------- the registry lock (file.Lock, file.Unlock) ------------ *)

Handles == 1..MaxHandles

\* the descriptor numbers a process hands out: 0 is its standard input; 1 and
\* 2 (standard output and error) stay open and are left out
FdNums == {0} \cup 3..MaxFd

\* what a descriptor refers to
Closed == [to |-> "closed", ino |-> 0]

StdinDesc == [to |-> "stdin", ino |-> 0]

OnInode(k) == [to |-> "inode", ino |-> k]

\* the holder of an inode's flock: an open file description
NoOwner == [h |-> 0, fd |-> 0]

Owner(h, n) == [h |-> h, fd |-> n]

NoCall ==
    [seq |-> 0, h |-> 0, op |-> "none", ok |-> TRUE, err |-> "nil", pid |-> 0]

\* handle h's call op returns; seq tells one call from the next
Returned(h, op, ok, err, pid) ==
    [seq |-> 1 - last.seq, h |-> h, op |-> op, ok |-> ok, err |-> err,
     pid |-> pid]

\* &file{path: path}: the fd field is left at its zero value
NewHandle == [fd |-> 0, pc |-> "ready", pending |-> 0]

\* descriptors (handle values on Windows, where 0 is never one) free in h's
\* process
FreeFds(h) ==
    {n \in FdNums : fds[h][n] = Closed /\ (platform = "windows" => n # 0)}

\* open() returns the lowest free descriptor
LowestFree(h) == CHOOSE n \in FreeFds(h) : \A m \in FreeFds(h) : n <= m

\* some process has the file at the path open
FileOpen ==
    file.exists /\ \E h \in Handles, n \in FdNums : fds[h][n] = OnInode(ino)

\* open(O_CREAT) / CreateFileW(OPEN_ALWAYS) can succeed for h
CanOpen(h) == FreeFds(h) # {} /\ (file.exists \/ inodes < MaxInodes)

\* the file at the path after open(O_CREAT) / CreateFileW(OPEN_ALWAYS) /
\* os.WriteFile: the one there is, or a new one
Opened == IF file.exists THEN ino ELSE inodes + 1

Created == IF file.exists THEN inodes ELSE inodes + 1

\* on Windows a file held open without sharing cannot be opened or deleted
Denied == platform = "windows" /\ FileOpen

lockframe == <<supvars, regvars, srvvars, runvars, davvars, clivars, prbvars, obsvars>>

LockRecords == {Absent, Content(<<"x">>), Content(<<"1">>)}

InitLock ==
    /\ platform \in {"unix", "windows"}
    /\ file \in LockRecords
    /\ ino = (IF file.exists THEN 1 ELSE 0)
    /\ inodes = (IF file.exists THEN 1 ELSE 0)
    /\ \E open \in BOOLEAN :
         fds = [h \in Handles |-> [n \in FdNums |->
                  IF n = 0 /\ platform = "unix" /\ open THEN StdinDesc
                  ELSE Closed]]
    /\ flock = [k \in 1..MaxInodes |-> NoOwner]
    /\ hnd = [h \in Handles |-> NewHandle]
    /\ NoServing /\ NoDav /\ NoCli /\ NoProbes /\ NoRuns
    /\ last = NoCall
    /\ NoCommands /\ NoRegistryCalls /\ NoRequests

\* unix Lock: fd, err := syscall.Open(p.path, O_RDWR|O_CREAT, 0644) succeeds
LockOpen(h) ==
    /\ platform = "unix" /\ hnd[h].pc = "ready" /\ CanOpen(h)
    /\ file' = (IF file.exists THEN file ELSE Content(<<>>))
    /\ ino' = Opened
    /\ inodes' = Created
    /\ fds' = [fds EXCEPT ![h][LowestFree(h)] = OnInode(Opened)]
    /\ hnd' = [hnd EXCEPT ![h] = [@ EXCEPT !.pc = "flock",
                                            !.pending = LowestFree(h)]]
    /\ UNCHANGED <<platform, flock, last, lockframe>>

\* unix Lock: syscall.Open fails; return "failed to open PID file for locking"
LockOpenFail(h) ==
    /\ platform = "unix" /\ hnd[h].pc = "ready"
    /\ last' = Returned(h, "Lock", FALSE, "open", 0)
    /\ UNCHANGED <<file, platform, ino, inodes, fds, flock, hnd, lockframe>>

\* unix Lock: syscall.Flock(fd, LOCK_EX) returns once no other open file
\* description holds the inode's lock; p.fd = fd; return nil
LockFlock(h) ==
    /\ platform = "unix" /\ hnd[h].pc = "flock"
    /\ LET n == hnd[h].pending
           k == fds[h][n].ino
       IN  /\ flock[k] = NoOwner
           /\ flock' = [flock EXCEPT ![k] = Owner(h, n)]
           /\ hnd' = [hnd EXCEPT ![h] = [fd |-> n, pc |-> "ready", pending |-> 0]]
    /\ last' = Returned(h, "Lock", TRUE, "nil", 0)
    /\ UNCHANGED <<file, platform, ino, inodes, fds, lockframe>>

\* unix Lock: syscall.Flock fails (interrupted); syscall.Close(fd); return
\* "failed to lock PID file"
LockFlockFail(h) ==
    /\ platform = "unix" /\ hnd[h].pc = "flock"
    /\ fds' = [fds EXCEPT ![h][hnd[h].pending] = Closed]
    /\ hnd' = [hnd EXCEPT ![h] = [@ EXCEPT !.pc = "ready", !.pending = 0]]
    /\ last' = Returned(h, "Lock", FALSE, "flock", 0)
    /\ UNCHANGED <<file, platform, ino, inodes, flock, lockframe>>

\* unix Unlock: if p.fd < 0 return nil; syscall.Flock(p.fd, LOCK_UN), an
\* error (EBADF) when p.fd is not open; syscall.Close(p.fd); p.fd = -1
UnlockUnix(h) ==
    /\ platform = "unix" /\ hnd[h].pc = "ready"
    /\ LET n == hnd[h].fd IN
         IF n < 0
         THEN /\ last' = Returned(h, "Unlock", TRUE, "nil", 0)
              /\ UNCHANGED <<fds, flock, hnd>>
         ELSE IF fds[h][n] = Closed
         THEN /\ last' = Returned(h, "Unlock", FALSE, "EBADF", 0)
              /\ UNCHANGED <<fds, flock, hnd>>
         ELSE /\ flock' = [k \in DOMAIN flock |->
                             IF flock[k] = Owner(h, n) THEN NoOwner ELSE flock[k]]
              /\ fds' = [fds EXCEPT ![h][n] = Closed]
              /\ hnd' = [hnd EXCEPT ![h] = [@ EXCEPT !.fd = -1]]
              /\ last' = Returned(h, "Unlock", TRUE, "nil", 0)
    /\ UNCHANGED <<file, platform, ino, inodes, lockframe>>

\* windows Lock: CreateFileW(path, GENERIC_READ|GENERIC_WRITE, 0 (no
\* sharing), OPEN_ALWAYS) succeeds; p.fd = int(handle); return nil
LockWindows(h) ==
    /\ platform = "windows" /\ hnd[h].pc = "ready"
    /\ ~FileOpen /\ CanOpen(h)
    /\ file' = (IF file.exists THEN file ELSE Content(<<>>))
    /\ ino' = Opened
    /\ inodes' = Created
    /\ fds' = [fds EXCEPT ![h][LowestFree(h)] = OnInode(Opened)]
    /\ hnd' = [hnd EXCEPT ![h] = [@ EXCEPT !.fd = LowestFree(h)]]
    /\ last' = Returned(h, "Lock", TRUE, "nil", 0)
    /\ UNCHANGED <<platform, flock, lockframe>>

\* windows Lock: CreateFileW returns InvalidHandle, at once, with a sharing
\* violation when the file is open in any process (this one included);
\* return "failed to open PID file for locking"
LockWindowsFail(h) ==
    /\ platform = "windows" /\ hnd[h].pc = "ready"
    /\ last' = Returned(h, "Lock", FALSE,
                        IF FileOpen THEN "SharingViolation" ELSE "open", 0)
    /\ UNCHANGED <<file, platform, ino, inodes, fds, flock, hnd, lockframe>>

\* windows Unlock: if p.fd < 0 return nil; CloseHandle(p.fd), its result
\* ignored; p.fd = -1; return nil
UnlockWindows(h) ==
    /\ platform = "windows" /\ hnd[h].pc = "ready"
    /\ LET n == hnd[h].fd IN
         IF n < 0
         THEN UNCHANGED <<fds, hnd>>
         ELSE /\ fds' = [fds EXCEPT ![h][n] = Closed]
              /\ hnd' = [hnd EXCEPT ![h] = [@ EXCEPT !.fd = -1]]
    /\ last' = Returned(h, "Unlock", TRUE, "nil", 0)
    /\ UNCHANGED <<file, platform, ino, inodes, flock, lockframe>>

\* Read by the process of handle h
HandleRead(h) ==
    /\ hnd[h].pc = "ready"
    /\ last' = IF Denied
               THEN Returned(h, "Read", FALSE, "SharingViolation", 0)
               ELSE Returned(h, "Read", Read(file).err = "nil",
                             Read(file).err, Read(file).pid)
    /\ UNCHANGED <<file, platform, ino, inodes, fds, flock, hnd, lockframe>>

\* Write by the process of handle h, of its own pid: os.WriteFile opens with
\* O_CREATE|O_TRUNC, so an existing file keeps its inode
HandleWrite(h) ==
    /\ hnd[h].pc = "ready"
    /\ Denied \/ file.exists \/ inodes < MaxInodes
    /\ IF Denied
       THEN /\ last' = Returned(h, "Write", FALSE, "SharingViolation", 0)
            /\ UNCHANGED <<file, ino, inodes>>
       ELSE /\ last' = Returned(h, "Write", TRUE, "nil", 0)
            /\ file' = Write(h)
            /\ ino' = Opened
            /\ inodes' = Created
    /\ UNCHANGED <<platform, fds, flock, hnd, lockframe>>

\* Remove by the process of handle h: os.Remove unlinks the path; the inode
\* lives on, with its lock, while descriptors are open on it
HandleRemove(h) ==
    /\ hnd[h].pc = "ready"
    /\ IF Denied
       THEN /\ last' = Returned(h, "Remove", FALSE, "SharingViolation", 0)
            /\ UNCHANGED <<file, ino>>
       ELSE /\ last' = Returned(h, "Remove", Remove(file).ok,
                                IF Remove(file).ok THEN "nil" ELSE "NotFound", 0)
            /\ file' = Remove(file).file
            /\ ino' = 0
    /\ UNCHANGED <<platform, inodes, fds, flock, hnd, lockframe>>

NextLock ==
    \/ \E h \in Handles : LockOpen(h)
    \/ \E h \in Handles : LockOpenFail(h)
    \/ \E h \in Handles : LockFlock(h)
    \/ \E h \in Handles : LockFlockFail(h)
    \/ \E h \in Handles : UnlockUnix(h)
    \/ \E h \in Handles : LockWindows(h)
    \/ \E h \in Handles : LockWindowsFail(h)
    \/ \E h \in Handles : UnlockWindows(h)
    \/ \E h \in Handles : HandleRead(h)
    \/ \E h \in Handles : HandleWrite(h)
    \/ \E h \in Handles : HandleRemove(h)

SpecLock == InitLock /\ [][NextLock]_vars

\* handle h's call op returns on this step
CallReturns(h, op) == last'.seq # last.seq /\ last'.h = h /\ last'.op = op

\* handle h holds a lock: on unix a flock through one of its descriptors, on
\* Windows an open handle on the file
Holds(h) ==
    IF platform = "unix"
    THEN \E k \in DOMAIN flock : flock[k].h = h
    ELSE \E n \in FdNums : fds[h][n].to = "inode"

\* the lock on the file now at the path is held through a handle other than h
HeldByOther(h) ==
    /\ file.exists
    /\ \E g \in Handles \ {h} :
         IF platform = "unix"
         THEN flock[ino].h = g
         ELSE \E n \in FdNums : fds[g][n] = OnInode(ino)

\* C17: Unlock() on a handle that does not hold the lock (never locked, or
\* already unlocked) returns success and has no effect at all: no lock is
\* released and no descriptor is closed.
C17_UnlockWithoutLockIsNoOp ==
    [][\A h \in Handles :
          (CallReturns(h, "Unlock") /\ ~Holds(h))
          => /\ last'.ok
             /\ fds' = fds
             /\ flock' = flock
             /\ file' = file]_vars

\* C18: Lock() blocks while the lock is held: a Lock() call that returns while
\* another process holds the lock on the file has neither succeeded nor
\* failed because the lock is held.
C18_LockWaitsWhileHeld ==
    [][\A h \in Handles :
          (CallReturns(h, "Lock") /\ HeldByOther(h))
          => last'.err \notin {"nil", "SharingViolation"}]_vars

(* ------------- the handler chain (server.NewWithLockSystem) ------------ *)

\* A URL path is the sequence of its segments, strings.Split(path, "/"),
\* and a segment is the sequence of its characters: "/a/s" is
\* <<Empty, SegA, SegS>>, "/" is <<Empty, Empty>> and "" is <<Empty>>.
Empty == <<>>

Dot == <<".">>

DotDot == <<".", ".">>

\* a directory name, a file name, and a file name with two dots inside
SegA == <<"a">>

SegS == <<"s">>

SegDots == <<"a", ".", ".", "b">>

SegHealth == <<"h", "e", "a", "l", "t", "h">>

GuardSegs == {Empty, Dot, DotDot, SegA, SegS, SegDots}

MuxSegs == GuardSegs \cup {SegHealth}

\* the paths of at most n segments
Paths(segs, n) == UNION {[1..k -> segs] : k \in 1..n}

HealthPath == <<Empty, SegHealth>>

StatusOK == 200

StatusMovedPermanently == 301

StatusForbidden == 403

StatusNotFound == 404

\* the path begins with a slash
Rooted(p) == Len(p) >= 2 /\ p[1] = Empty

\* path.Clean, segment by segment: out is the cleaned path so far. Empty and
\* "." segments are dropped; ".." removes the segment before it, is dropped at
\* the root of a rooted path and is kept at the front of a relative one.
RECURSIVE CleanFrom(_, _, _)
CleanFrom(rest, rooted, out) ==
    IF rest = <<>> THEN out
    ELSE CleanFrom(Tail(rest), rooted,
            IF Head(rest) \in {Empty, Dot} THEN out
            ELSE IF Head(rest) = DotDot
            THEN IF out # <<>> /\ out[Len(out)] # DotDot
                 THEN SubSeq(out, 1, Len(out) - 1)
                 ELSE IF rooted THEN out ELSE Append(out, DotDot)
            ELSE Append(out, Head(rest)))

\* path.Clean: "" becomes ".", a rooted path stays rooted ("/" when nothing
\* is left), a relative path with nothing left becomes "."
PathClean(p) ==
    IF p = <<Empty>> THEN <<Dot>>
    ELSE LET out == CleanFrom(p, Rooted(p), <<>>) IN
         IF Rooted(p)
         THEN <<Empty>> \o (IF out = <<>> THEN <<Empty>> ELSE out)
         ELSE IF out = <<>> THEN <<Dot>> ELSE out

\* the segment has two dots in a row
HasDotDot(seg) ==
    \E k \in 1..(Len(seg) - 1) : seg[k] = "." /\ seg[k + 1] = "."

\* strings.Contains(p, ".."): a slash separates segments, so the two dots
\* are in one segment
ContainsDotDot(p) == \E k \in 1..Len(p) : HasDotDot(p[k])

\* strings.HasPrefix(p, "/..")
HasPrefixSlashDotDot(p) ==
    Rooted(p) /\ Len(p[2]) >= 2 /\ p[2][1] = "." /\ p[2][2] = "."

\* traversalProtection.ServeHTTP answers 403 Forbidden
GuardRejects(p) ==
    ContainsDotDot(PathClean(p)) \/ HasPrefixSlashDotDot(PathClean(p))

\* http.ServeMux's cleanPath: "" is "/", a slash is put in front of a relative
\* path, then path.Clean, and a trailing slash is put back
MuxCleanPath(p) ==
    IF p = <<Empty>> THEN <<Empty, Empty>>
    ELSE LET q == IF Rooted(p) THEN p ELSE <<Empty>> \o p
             np == PathClean(q)
         IN  IF q[Len(q)] = Empty /\ np # <<Empty, Empty>>
             THEN Append(np, Empty)
             ELSE np

\* faulty variant: the logging middleware is added whenever a logger is given
ChainLogsWhenGiven(log) ==
    IF log # "nil" THEN <<"logging", "guard", "dav">> ELSE <<"guard", "dav">>

\* the handler registered for "/", outermost first: the delegate wrapped in
\* the guard, wrapped in log.Middleware if log != nil && log.Enabled()
Chain(log) ==
    IF log = "enabled" THEN <<"logging", "guard", "dav">> ELSE <<"guard", "dav">>

\* the handler that handler h of the chain wraps
Wrapped(h) ==
    LET c == Chain(logger)
        k == CHOOSE j \in 1..Len(c) : c[j] = h
    IN  c[k + 1]

\* handler h is given the request
Visit(h) == visited' = Append(visited, [h |-> h, req |-> req])

\* handler h writes the response status
Respond(status) == resp' = status /\ at' = "done"

srvframe == <<file, supvars, regvars, lockvars, runvars, davvars, clivars, prbvars, obsvars>>

\* ServeMux: a path that is not clean is answered with a redirect to the
\* clean one (CONNECT requests are left alone)
MuxRedirect ==
    /\ at = "mux"
    /\ ~req.connect /\ MuxCleanPath(req.path) # req.path
    /\ Visit("mux")
    /\ Respond(StatusMovedPermanently)
    /\ UNCHANGED <<logger, req, srvframe>>

\* faulty variant: no handler is registered for "/health"
MuxDispatchNoHealth ==
    /\ at = "mux"
    /\ req.connect \/ MuxCleanPath(req.path) = req.path
    /\ Visit("mux")
    /\ at' = Chain(logger)[1]
    /\ UNCHANGED <<logger, req, resp, srvframe>>

\* ServeMux: "/health" goes to healthHandler, every other path to the handler
\* registered for "/"
MuxDispatch ==
    /\ at = "mux"
    /\ req.connect \/ MuxCleanPath(req.path) = req.path
    /\ Visit("mux")
    /\ at' = IF req.path = HealthPath THEN "health" ELSE Chain(logger)[1]
    /\ UNCHANGED <<logger, req, resp, srvframe>>

\* healthHandler: w.WriteHeader(http.StatusOK); w.Write("OK")
HealthServe ==
    /\ at = "health"
    /\ Visit("health")
    /\ Respond(StatusOK)
    /\ UNCHANGED <<logger, req, srvframe>>

\* Logger.Middleware: next.ServeHTTP(wrapped, r), then the log line
LoggingServe ==
    /\ at = "logging"
    /\ Visit("logging")
    /\ at' = Wrapped("logging")
    /\ UNCHANGED <<logger, req, resp, srvframe>>

\* traversalProtection.ServeHTTP: http.Error(w, "Forbidden", 403); return
GuardReject ==
    /\ at = "guard"
    /\ GuardRejects(req.path)
    /\ Visit("guard")
    /\ Respond(StatusForbidden)
    /\ UNCHANGED <<logger, req, srvframe>>

\* traversalProtection.ServeHTTP: t.handler.ServeHTTP(w, r)
GuardForward ==
    /\ at = "guard"
    /\ ~GuardRejects(req.path)
    /\ Visit("guard")
    /\ at' = Wrapped("guard")
    /\ UNCHANGED <<logger, req, resp, srvframe>>

\* webdav.Handler: serves the resource named by the path, or finds none
DavServe ==
    /\ at = "dav"
    /\ Visit("dav")
    /\ \E status \in {StatusOK, StatusNotFound} : Respond(status)
    /\ UNCHANGED <<logger, req, srvframe>>

\* the guard alone, wrapping the delegate, given any path
InitGuard ==
    /\ logger = "nil"
    /\ req \in [path : Paths(GuardSegs, MaxSegs), connect : {FALSE}]
    /\ at = "guard"
    /\ visited = <<>>
    /\ NoServing /\ NoDav /\ NoCli /\ NoProbes /\ NoRuns
    /\ resp = 0
    /\ file = Absent
    /\ NoCommands /\ NoRegistryCalls /\ NoLocking

NextGuard ==
    \/ GuardReject
    \/ GuardForward
    \/ DavServe

SpecGuard == InitGuard /\ [][NextGuard]_vars

\* the whole chain, as built by New with any logger, given any request
InitChain ==
    /\ logger \in {"nil", "disabled", "enabled"}
    /\ req \in [path : Paths(MuxSegs, MaxMuxSegs), connect : BOOLEAN]
    /\ at = "mux"
    /\ NoServing /\ NoDav /\ NoCli /\ NoProbes /\ NoRuns
    /\ visited = <<>>
    /\ resp = 0
    /\ file = Absent
    /\ NoCommands /\ NoRegistryCalls /\ NoLocking

NextChain ==
    \/ MuxRedirect
    \/ MuxDispatch
    \/ HealthServe
    \/ LoggingServe
    \/ GuardReject
    \/ GuardForward
    \/ DavServe

SpecChain == InitChain /\ [][NextChain]_vars

\* the handlers the request has reached, by name
Reached == [k \in 1..Len(visited) |-> visited[k].h]

\* handler h was given the request
Got(h) == \E k \in 1..Len(visited) : visited[k].h = h

\* the guard has answered the request itself, with 403, and the delegated
\* handler was not invoked
Rejected ==
    /\ at = "done" /\ resp = StatusForbidden
    /\ visited[Len(visited)].h = "guard"
    /\ ~Got("dav")

\* the guard has passed the request on, and the delegated handler is given
\* the request as it came
Forwarded ==
    /\ Got("guard")
    /\ at = "dav" \/ Got("dav")
    /\ \A k \in 1..Len(visited) : visited[k].h = "dav" => visited[k].req = req

\* "/../secret.txt", "/a/../../secret.txt" and "/a/b.txt"
PathUp == <<Empty, DotDot, SegS>>

PathDownUpUp == <<Empty, SegA, DotDot, DotDot, SegS>>

PathPlain == <<Empty, SegA, SegS>>

\* C19: the traversal guard rejects with 403, without invoking the delegated
\* handler, every request whose normalized path still contains a
\* parent-directory segment or begins with one; in particular /../secret.txt
\* and /a/../../secret.txt are both rejected, while /a/b.txt is forwarded to
\* the delegated handler with the request unchanged.
C19_GuardRejectsTraversal ==
    Got("guard")
    => /\ (\E k \in 1..Len(PathClean(req.path)) : PathClean(req.path)[k] = DotDot)
            => Rejected
       /\ req.path \in {PathUp, PathDownUpUp} => Rejected
       /\ req.path = PathPlain => Forwarded

\* C20: the chain is health-check bypass, then the optional logging
\* middleware, then the traversal guard, then the delegated handler: a request
\* to the health route is answered without reaching logging, guard or
\* delegate; every other request reaches the delegate only after passing the
\* guard; and the logging middleware is in the chain if and only if a logger
\* was given and was enabled at construction.
C20_ChainOrder ==
    LET logs == IF logger = "enabled" THEN <<"logging">> ELSE <<>> IN
    /\ \A k \in 1..Len(visited) :
         /\ visited[k].req = req
         /\ Reached[k] = "dav" => k > 1 /\ Reached[k - 1] = "guard"
         /\ Reached[k] = "guard"
              => /\ Reached = SubSeq(<<"mux">> \o logs \o <<"guard", "dav">>,
                                     1, Len(Reached))
                 /\ ~GuardRejects(req.path) => at = "dav" \/ Got("dav")
         /\ Reached[k] = "logging" => logger = "enabled"
         /\ Reached[k] = "health" => Reached = <<"mux", "health">>
    /\ (req.path = HealthPath /\ at = "done")
         => Reached = <<"mux", "health">> /\ resp = StatusOK
    /\ at = "done"
         => \/ Reached = <<"mux">> /\ resp = StatusMovedPermanently
            \/ Reached = <<"mux", "health">> /\ req.path = HealthPath
            \/ Reached = <<"mux">> \o logs \o <<"guard">> /\ resp = StatusForbidden
            \/ Reached = <<"mux">> \o logs \o <<"guard", "dav">>

\* C20 witness: with an enabled logger a request has gone through mux,
\* logging, guard and delegate, in that order
C20_Witness ==
    /\ logger = "enabled" /\ at = "done"
    /\ req.path = PathPlain
    /\ Reached = <<"mux", "logging", "guard", "dav">>

(* ------------- the Serving Process (WebDAV.Start, shutdown) ------------ *)

\* shutdown's context.WithTimeout(context.Background(), 30*time.Second), in
\* time units
ShutdownTimeout == 30

\* the requests made of the Serving Process: the health route (also by
\* CONNECT, whose path the mux does not clean), a file of the folder, a path
\* the mux redirects and a path the guard rejects
ServeRequests ==
    [path : {HealthPath}, connect : BOOLEAN]
    \cup [path : {PathPlain, PathUp, <<Empty, SegDots>>}, connect : {FALSE}]

\* NewWithLockSystem(folder, port, bind, log, noLock), before Start
NewServer(noLock) ==
    [pc        |-> "listen",
     noLock    |-> noLock,
     listener  |-> "nil",
     notify    |-> FALSE,
     sigChan   |-> 0,
     errChan   |-> "empty",
     serve     |-> "none",
     shutdowns |-> 0,
     clock     |-> 0,
     ret       |-> "none",
     accepted  |-> 0,
     refused   |-> FALSE,
     signals   |-> 0]

\* the process is there: Start has not returned to main, and no signal has
\* ended the process
Alive == run.pc \notin {"returned", "killed"}

\* a request has been accepted and its handler has not returned
InFlight == at \notin {"none", "done"}

runframe == <<file, supvars, regvars, lockvars, davvars, clivars, prbvars, obsvars>>

\* faulty variant: signal.Notify comes before net.Listen
StartListenFailNotified ==
    /\ run.pc = "listen"
    /\ run' = [run EXCEPT !.pc = "returned", !.ret = "listen error",
                          !.notify = TRUE]
    /\ UNCHANGED <<srvvars, runframe>>

\* Start: net.Listen fails; return fmt.Errorf("failed to create listener")
StartListenFail ==
    /\ run.pc = "listen"
    /\ run' = [run EXCEPT !.pc = "returned", !.ret = "listen error"]
    /\ UNCHANGED <<srvvars, runframe>>

\* Start: s.listener = listener
StartListen ==
    /\ run.pc = "listen"
    /\ run' = [run EXCEPT !.pc = "notify", !.listener = "open"]
    /\ UNCHANGED <<srvvars, runframe>>

\* Start: signal.Notify(sigChan, syscall.SIGINT, syscall.SIGTERM)
StartNotify ==
    /\ run.pc = "notify"
    /\ run' = [run EXCEPT !.pc = "go", !.notify = TRUE]
    /\ UNCHANGED <<srvvars, runframe>>

\* Start: go func() { s.server.Serve(s.listener) ... }()
StartGo ==
    /\ run.pc = "go"
    /\ run' = [run EXCEPT !.pc = "select", !.serve = "serving"]
    /\ UNCHANGED <<srvvars, runframe>>

\* SIGINT or SIGTERM is sent to the process after signal.Notify: the runtime
\* puts it into sigChan, or drops it when the channel (of capacity 1) is full
Signal ==
    /\ Alive /\ run.notify
    /\ run.signals < MaxSignals
    /\ run' = [run EXCEPT !.sigChan = 1, !.signals = @ + 1]
    /\ UNCHANGED <<srvvars, runframe>>

\* SIGINT or SIGTERM is sent before signal.Notify: the default action ends
\* the process, and Start returns nothing
SignalKills ==
    /\ Alive /\ ~run.notify
    /\ run' = [run EXCEPT !.pc = "killed"]
    /\ UNCHANGED <<srvvars, runframe>>

\* Start: case sig := <-sigChan: ... return s.shutdown()
SelectSignal ==
    /\ run.pc = "select"
    /\ run.sigChan = 1
    /\ run' = [run EXCEPT !.pc = "shutdown", !.sigChan = 0,
                          !.shutdowns = @ + 1]
    /\ UNCHANGED <<srvvars, runframe>>

\* Start: case err := <-errChan: return err
SelectError ==
    /\ run.pc = "select"
    /\ run.errChan # "empty"
    /\ run' = [run EXCEPT !.pc = "returned", !.ret = run.errChan,
                          !.errChan = "empty"]
    /\ UNCHANGED <<srvvars, runframe>>

\* faulty variant: the drain is awaited without closing the listener
ShutdownBeginKeepsListener ==
    /\ run.pc = "shutdown"
    /\ run' = [run EXCEPT !.pc = "draining", !.clock = 0]
    /\ UNCHANGED <<srvvars, runframe>>

\* shutdown: the context with its deadline is made and server.Shutdown(ctx)
\* begins: it closes the listeners, then waits for the connections
ShutdownBegin ==
    /\ run.pc = "shutdown"
    /\ run' = [run EXCEPT !.pc = "draining", !.listener = "closed",
                          !.clock = 0]
    /\ UNCHANGED <<srvvars, runframe>>

\* a time unit passes while server.Shutdown waits for a request in flight
Tick ==
    /\ run.pc = "draining"
    /\ InFlight
    /\ run.clock < ShutdownTimeout
    /\ run' = [run EXCEPT !.clock = @ + 1]
    /\ UNCHANGED <<srvvars, runframe>>

\* faulty variant: the server is closed at once (server.Close), whatever is
\* in flight
ShutdownAbandons ==
    /\ run.pc = "draining"
    /\ run.clock < ShutdownTimeout
    /\ run' = [run EXCEPT !.pc = "returned", !.ret = "nil"]
    /\ UNCHANGED <<srvvars, runframe>>

\* shutdown: server.Shutdown returns nil, no connection being active before
\* the deadline; fmt.Println("Server stopped gracefully"); return nil
ShutdownDrained ==
    /\ run.pc = "draining"
    /\ ~InFlight
    /\ run.clock < ShutdownTimeout
    /\ run' = [run EXCEPT !.pc = "returned", !.ret = "nil"]
    /\ UNCHANGED <<srvvars, runframe>>

\* faulty variant: the result of server.Shutdown is dropped
ShutdownExpiredSwallowed ==
    /\ run.pc = "draining"
    /\ run.clock = ShutdownTimeout
    /\ run' = [run EXCEPT !.pc = "returned", !.ret = "nil"]
    /\ UNCHANGED <<srvvars, runframe>>

\* shutdown: the deadline passes first and server.Shutdown returns ctx.Err();
\* return fmt.Errorf("server shutdown failed: %w", err)
ShutdownExpired ==
    /\ run.pc = "draining"
    /\ run.clock = ShutdownTimeout
    /\ run' = [run EXCEPT !.pc = "returned", !.ret = "shutdown failed"]
    /\ UNCHANGED <<srvvars, runframe>>

\* the serve loop: Accept fails for good while the server is not shutting
\* down; Serve closes the listener and returns the error, which is not
\* http.ErrServerClosed: errChan <- fmt.Errorf("server error: %w", err)
ServeFail ==
    /\ Alive
    /\ run.serve = "serving" /\ run.listener = "open"
    /\ run' = [run EXCEPT !.serve = "failed", !.listener = "closed",
                          !.errChan = "server error"]
    /\ UNCHANGED <<srvvars, runframe>>

\* faulty variant: the test err != http.ErrServerClosed is missing
ServeClosedReported ==
    /\ Alive
    /\ run.serve = "serving" /\ run.listener = "closed"
    /\ run' = [run EXCEPT !.serve = "closed", !.errChan = "server error"]
    /\ UNCHANGED <<srvvars, runframe>>

\* the serve loop: Accept fails because server.Shutdown has closed the
\* listener; Serve returns http.ErrServerClosed and nothing is sent
ServeClosed ==
    /\ Alive
    /\ run.serve = "serving" /\ run.listener = "closed"
    /\ run' = [run EXCEPT !.serve = "closed"]
    /\ UNCHANGED <<srvvars, runframe>>

\* the serve loop accepts a connection and its request r goes to the handler
\* (the mux)
Accept(r) ==
    /\ Alive
    /\ run.serve = "serving" /\ run.listener = "open"
    /\ ~InFlight
    /\ run.accepted < MaxRequests
    /\ run' = [run EXCEPT !.accepted = @ + 1]
    /\ req' = r /\ at' = "mux" /\ visited' = <<>> /\ resp' = 0
    /\ UNCHANGED <<logger, runframe>>

\* a client connects while no listener is open: the connection is refused
ConnRefused ==
    /\ run.listener # "open"
    /\ ~run.refused
    /\ run' = [run EXCEPT !.refused = TRUE]
    /\ UNCHANGED <<srvvars, runframe>>

InitServe ==
    /\ logger \in {"nil", "disabled", "enabled"}
    /\ run \in {NewServer(noLock) : noLock \in BOOLEAN}
    /\ req = <<>> /\ at = "none" /\ visited = <<>> /\ resp = 0
    /\ file = Absent
    /\ NoCommands /\ NoRegistryCalls /\ NoLocking
    /\ NoDav /\ NoCli /\ NoProbes /\ NoRuns

NextServe ==
    \/ StartListenFail
    \/ StartListen
    \/ StartNotify
    \/ StartGo
    \/ Signal
    \/ SignalKills
    \/ SelectSignal
    \/ SelectError
    \/ ShutdownBegin
    \/ Tick
    \/ ShutdownDrained
    \/ ShutdownExpired
    \/ ServeFail
    \/ ServeClosed
    \/ \E r \in ServeRequests : Accept(r)
    \/ ConnRefused
    \/ Alive /\ MuxRedirect
    \/ Alive /\ MuxDispatch
    \/ Alive /\ HealthServe
    \/ Alive /\ LoggingServe
    \/ Alive /\ GuardReject
    \/ Alive /\ GuardForward
    \/ Alive /\ DavServe

SpecServe == InitServe /\ [][NextServe]_vars

\* the steps of the goroutine that runs Start
StartSteps ==
    \/ StartListenFail
    \/ StartListen
    \/ StartNotify
    \/ StartGo
    \/ SelectSignal
    \/ SelectError
    \/ ShutdownBegin
    \/ ShutdownDrained
    \/ ShutdownExpired

\* The scheduler runs the goroutine of Start whenever it can take a step, and
\* time passes; a handler may take any time, and no request need ever come.
SpecServeLive == SpecServe /\ WF_vars(StartSteps) /\ WF_vars(Tick)

\* Start has returned to its caller
StartReturned == run.pc = "returned"

\* graceful shutdown is under way or over: server.Shutdown has been called
ShuttingDown == run.shutdowns > 0 /\ run.pc \in {"draining", "returned"}

C21_Done ==
    /\ (StartReturned /\ run.serve # "none")
         => \/ run.shutdowns = 1 /\ run.signals > 0
            \/ run.ret = "server error" /\ run.serve = "failed"
    /\ run.ret = "nil" => run.shutdowns = 1 /\ ~InFlight
    /\ (StartReturned /\ run.shutdowns = 1 /\ run.clock < ShutdownTimeout)
         => run.ret = "nil"

C21_Step ==
    /\ ShuttingDown => run'.accepted = run.accepted /\ (InFlight' => InFlight)
    /\ (run.pc = "draining" /\ InFlight /\ run.clock < ShutdownTimeout)
         => run'.pc = "draining"

\* C21: Start() does not return while serving unless an interruption signal
\* or a fatal serving error occurs. When a signal arrives while a request is
\* in flight, no new connection is accepted once shutdown has begun, the
\* request in flight runs to completion, and Start() returns success, within
\* the 30-unit timeout, once the drain finishes.
C21_SignalDrainsThenReturns ==
    /\ []C21_Done
    /\ [][C21_Step]_vars
    /\ (run.pc = "shutdown") ~> StartReturned

\* C21 witness: a signal came while a request was in flight, time passed
\* while the request ran, a new connection was refused, the request was
\* answered and Start returned nil
C21_Witness ==
    /\ StartReturned /\ run.ret = "nil"
    /\ run.clock > 0 /\ run.refused
    /\ at = "done" /\ resp = StatusOK /\ req.path = PathPlain

C22_Done ==
    /\ run.shutdowns <= 1
    /\ (StartReturned /\ run.clock = ShutdownTimeout)
         => run.ret = "shutdown failed"
    /\ run.ret = "shutdown failed"
         => run.shutdowns = 1 /\ run.clock = ShutdownTimeout

C22_Step ==
    /\ (run.pc = "draining" /\ run.clock = ShutdownTimeout)
         => \/ run'.pc = "draining"
            \/ run'.pc = "returned" /\ run'.ret = "shutdown failed"
    /\ run'.shutdowns > run.shutdowns => run.shutdowns = 0
    /\ StartReturned => run'.pc = run.pc /\ run'.ret = run.ret

\* C22: if, after a shutdown signal, the drain has not completed when the
\* 30-unit timeout expires, Start() returns the shutdown-failure error, never
\* nil, and shutdown is not tried again.
C22_DrainTimeoutIsReported == []C22_Done /\ [][C22_Step]_vars

\* C22 witness: Start has returned the shutdown failure while a request was
\* still in flight
C22_Witness ==
    /\ StartReturned /\ run.ret = "shutdown failed"
    /\ InFlight /\ run.clock = ShutdownTimeout

\* the error of the serve loop that errChan carries is never the "server
\* closed" result of a shutdown
ClosedIsNotFatal ==
    /\ run.serve = "closed" => run.errChan = "empty"
    /\ run.errChan # "empty" => run.serve = "failed"
    /\ run.ret = "server error" => run.serve = "failed"

\* Start, waiting in its select with the error of the serve loop in errChan,
\* goes on
LeavesSelectWithError ==
    /\ run.pc = "select" /\ run.errChan # "empty"
    /\ run'.pc # "select"

\* Start returns the serving error and has not invoked shutdown
ReturnsServingError ==
    /\ run'.pc = "returned"
    /\ run'.ret = "server error"
    /\ run'.shutdowns = 0

\* C23: if the serve loop ends with a fatal serving error that is not the
\* result of a shutdown, Start() returns that error directly and never
\* invokes graceful shutdown; and the "server closed" result of a
\* signal-driven shutdown is never reported as a fatal serving error.
C23_FatalErrorIsReturned ==
    /\ [][LeavesSelectWithError => ReturnsServingError]_vars
    /\ []ClosedIsNotFatal

\* C23 as amended: the same, for a serving error that reaches Start while no
\* interruption signal is pending (with both pending, Start takes either);
\* and whenever Start() returns the serving error, it has not invoked
\* graceful shutdown.
C23_FatalErrorIsReturnedUnlessSignalled ==
    /\ [][(LeavesSelectWithError /\ run.sigChan = 0)
            => ReturnsServingError]_vars
    /\ [](run.ret = "server error" => run.shutdowns = 0)
    /\ []ClosedIsNotFatal

\* C23 witness: the serve loop has failed, no signal has come, and Start has
\* returned the error
C23_Witness ==
    /\ StartReturned /\ run.ret = "server error"
    /\ run.serve = "failed" /\ run.signals = 0

C24_Done ==
    run.ret = "listen error"
    => /\ StartReturned
       /\ run.listener = "nil"
       /\ run.serve = "none"
       /\ ~run.notify
       /\ run.accepted = 0 /\ at = "none" /\ visited = <<>>
       /\ run.shutdowns = 0

C24_Step ==
    (run.pc = "listen" /\ run'.pc # "listen" /\ run'.listener # "open")
    => run'.ret = "listen error" \/ run'.pc = "killed"

\* C24: if binding the listener fails, Start() returns an error before any
\* serving begins: no serve loop is started, no signal handler is registered,
\* no request is ever accepted, and no listener is held afterwards.
C24_BindFailureStartsNothing == []C24_Done /\ [][C24_Step]_vars

\* C24 witness: Start has returned the bind failure, and a client that
\* connected afterwards was refused
C24_Witness ==
    /\ StartReturned /\ run.ret = "listen error"
    /\ run.refused

\* the request being served is for the health route
ToHealth == at # "none" /\ req.path = HealthPath

C27_Done ==
    /\ ToHealth
         => /\ run.accepted > 0 /\ run.serve # "none"
            /\ at \in {"mux", "health", "done"}
            /\ at = "done" => resp = StatusOK /\ Reached = <<"mux", "health">>
    /\ Got("health") => req.path = HealthPath

C27_Step ==
    run'.accepted > run.accepted
    => /\ run.serve = "serving" /\ run.listener = "open"
       /\ run.pc \in {"select", "shutdown"}

\* C27: from the moment Start() has bound the listener and begun serving
\* until shutdown begins, every request to the fixed health route is answered
\* with 200 by the health handler alone (no other handler, and so no
\* authentication, comes before it), whatever the lock strategy, the logger
\* and the contents of the served folder.
C27_HealthAnswersWhileServing == []C27_Done /\ [][C27_Step]_vars

\* C27 witness: a Serving Process with the permissive lock strategy and an
\* enabled logger has answered a second request, to the health route
C27_Witness ==
    /\ run.noLock /\ logger = "enabled"
    /\ run.accepted = 2 /\ run.pc = "select"
    /\ ToHealth /\ at = "done" /\ resp = StatusOK

(* ------------- the command line of start and run (package main) -------- *)

\* An argument is the sequence of its characters, so that the flag package
\* can look at its first characters and split it at "=".
ArgRun == <<"r", "u", "n">>

FlagDir == <<"d", "i", "r">>

FlagPort == <<"p", "o", "r", "t">>

FlagBind == <<"b", "i", "n", "d">>

FlagLog == <<"l", "o", "g">>

FlagLogDir == <<"l", "o", "g", "-", "d", "i", "r">>

FlagNoLock == <<"n", "o", "-", "l", "o", "c", "k">>

\* the flags handleStartOrRun defines; -log and -no-lock are boolean
FlagNames == {FlagDir, FlagPort, FlagBind, FlagLog, FlagLogDir, FlagNoLock}

BoolFlags == {FlagLog, FlagNoLock}

\* "-" in front of a flag's name
Dashed(name) == <<"-">> \o name

\* the defaults of the flags
Defaults ==
    [ok     |-> TRUE,
     dir    |-> <<".">>,
     port   |-> 8080,
     bind   |-> <<"1", "2", "7", ".", "0", ".", "0", ".", "1">>,
     log    |-> FALSE,
     logDir |-> <<>>,
     noLock |-> FALSE]

\* strconv.ParseBool
TrueTexts == {<<"1">>, <<"t">>, <<"T">>, <<"T", "R", "U", "E">>, <<"t", "r", "u", "e">>, <<"T", "r", "u", "e">>}

FalseTexts == {<<"0">>, <<"f">>, <<"F">>, <<"F", "A", "L", "S", "E">>, <<"f", "a", "l", "s", "e">>, <<"F", "a", "l", "s", "e">>}

\* flag.Value.Set of the flag called name; the flags fail on a value they
\* cannot parse (a decimal numeral without leading zeros is read as
\* strconv.Atoi reads it)
SetFlag(cfg, name, value) ==
    IF name = FlagDir THEN [cfg EXCEPT !.dir = value]
    ELSE IF name = FlagBind THEN [cfg EXCEPT !.bind = value]
    ELSE IF name = FlagLogDir THEN [cfg EXCEPT !.logDir = value]
    ELSE IF name = FlagPort
    THEN IF AtoiOk(value) THEN [cfg EXCEPT !.port = AtoiVal(value)]
         ELSE [cfg EXCEPT !.ok = FALSE]
    ELSE IF value \in TrueTexts \cup FalseTexts
    THEN IF name = FlagLog THEN [cfg EXCEPT !.log = value \in TrueTexts]
         ELSE [cfg EXCEPT !.noLock = value \in TrueTexts]
    ELSE [cfg EXCEPT !.ok = FALSE]

\* FlagSet.Parse: parseOne on each argument in turn. Parsing stops at the
\* first argument that is not a flag and at "--"; a flag is "-name" or
\* "--name", with its value after "=" or, unless it is boolean, in the next
\* argument.
RECURSIVE FlagParse(_, _)
FlagParse(args, cfg) ==
    IF args = <<>> \/ ~cfg.ok THEN cfg
    ELSE
    LET s == Head(args) IN
    IF Len(s) < 2 \/ s[1] # "-" THEN cfg
    ELSE
    LET minuses == IF s[2] = "-" THEN 2 ELSE 1
        spelt   == SubSeq(s, minuses + 1, Len(s))
    IN
    IF minuses = 2 /\ Len(s) = 2 THEN cfg
    ELSE IF spelt = <<>> \/ spelt[1] \in {"-", "="}
    THEN [cfg EXCEPT !.ok = FALSE]
    ELSE
    LET eqs      == {i \in 2..Len(spelt) : spelt[i] = "="}
        eq       == IF eqs = {} THEN 0
                    ELSE CHOOSE i \in eqs : \A j \in eqs : i <= j
        name     == IF eq = 0 THEN spelt ELSE SubSeq(spelt, 1, eq - 1)
        inline   == SubSeq(spelt, eq + 1, Len(spelt))
        rest     == Tail(args)
    IN
    IF name \notin FlagNames THEN [cfg EXCEPT !.ok = FALSE]
    ELSE IF name \in BoolFlags
    THEN FlagParse(rest, SetFlag(cfg, name, IF eq = 0 THEN <<"t", "r", "u", "e">> ELSE inline))
    ELSE IF eq # 0 THEN FlagParse(rest, SetFlag(cfg, name, inline))
    ELSE IF rest = <<>> THEN [cfg EXCEPT !.ok = FALSE]
    ELSE FlagParse(Tail(rest), SetFlag(cfg, name, Head(rest)))

\* faulty variant: ports below 1024 are refused instead of warned about
ValidatePortUnprivileged(port) == port < 1024 \/ port > 65535

\* validatePort(port) returns an error
ValidatePort(port) == port < 1 \/ port > 65535

\* faulty variant: the log directory is passed on whenever one was given
StartArgsLogDirAlways(folder, port, bind, enableLog, logDir) ==
    <<ArgRun, Dashed(FlagDir), folder, Dashed(FlagPort), Itoa(port),
      Dashed(FlagBind), bind>>
    \o (IF enableLog THEN <<Dashed(FlagLog)>> ELSE <<>>)
    \o (IF logDir # <<>> THEN <<Dashed(FlagLogDir), logDir>> ELSE <<>>)

\* Daemon.Start: the arguments of the child, args := []string{"run", "-dir",
\* folder, "-port", strconv.Itoa(port), "-bind", bind}, then "-log" and
\* "-log-dir", logDir
StartArgs(folder, port, bind, enableLog, logDir) ==
    <<ArgRun, Dashed(FlagDir), folder, Dashed(FlagPort), Itoa(port),
      Dashed(FlagBind), bind>>
    \o (IF enableLog
        THEN <<Dashed(FlagLog)>>
             \o (IF logDir # <<>> THEN <<Dashed(FlagLogDir), logDir>> ELSE <<>>)
        ELSE <<>>)

\* Daemon.Start as main calls it, with noLock as its sixth argument: the
\* lock strategy is passed on as "-no-lock"
StartArgsWithLock(folder, port, bind, enableLog, logDir, noLock) ==
    StartArgs(folder, port, bind, enableLog, logDir)
    \o (IF noLock THEN <<Dashed(FlagNoLock)>> ELSE <<>>)

\* the values given on the command line: folders (the last does not exist),
\* ports around the limits of validatePort, addresses, log directories
Dirs == {<<".">>, <<"d">>, <<"-", "d">>, <<"x">>}

ExistingDirs == Dirs \ {<<"x">>}

PortSamples == {-1, 0, 1, 80, 1023, 1024, 8080, 65535, 65536}

Binds == {<<"1", "2", "7", ".", "0", ".", "0", ".", "1">>, <<"0", ".", "0", ".", "0", ".", "0">>}

LogDirs == {<<>>, <<"l">>}

\* os.Args[2:] as a user types it
UserArgs(dir, port, bind, log, logDir, noLock) ==
    <<Dashed(FlagDir), dir, Dashed(FlagPort), Itoa(port),
      Dashed(FlagBind), bind>>
    \o (IF log THEN <<Dashed(FlagLog)>> ELSE <<>>)
    \o (IF logDir # <<>> THEN <<Dashed(FlagLogDir), logDir>> ELSE <<>>)
    \o (IF noLock THEN <<Dashed(FlagNoLock)>> ELSE <<>>)

\* the two processes: 1 is the command the user gives, 2 the child that
\* `start` spawns
Cmds == {1, 2}

NoServer == [up |-> FALSE, noLock |-> FALSE, logging |-> FALSE]

NoProcess ==
    [pc |-> "none", command |-> "none", args |-> <<>>, cfg |-> Defaults,
     exit |-> -1, at |-> "none", server |-> NoServer]

\* main: command := os.Args[1], with os.Args[2:] still to parse
Process(command, args) ==
    [NoProcess EXCEPT !.pc = "parse", !.command = command, !.args = args]

\* os.Exit(code) at step pc
Exit(k, code) ==
    cli' = [cli EXCEPT ![k].pc = "exited", ![k].exit = code, ![k].at = cli[k].pc]

Goto(k, pc) == cli' = [cli EXCEPT ![k].pc = pc]

cliframe == <<file, supvars, regvars, lockvars, srvvars, runvars, davvars, prbvars, obsvars>>

\* handleStartOrRun: startCmd.Parse(os.Args[2:]), which exits with 2 on a
\* bad command line (flag.ExitOnError)
CliParse(k) ==
    /\ cli[k].pc = "parse"
    /\ LET cfg == FlagParse(cli[k].args, Defaults) IN
       IF cfg.ok
       THEN cli' = [cli EXCEPT ![k].pc = "stat", ![k].cfg = cfg]
       ELSE Exit(k, 2)
    /\ UNCHANGED cliframe

\* handleStartOrRun: os.Stat(*folder); os.Exit(1) if it does not exist
CliStat(k) ==
    /\ cli[k].pc = "stat"
    /\ IF cli[k].cfg.dir \in ExistingDirs THEN Goto(k, "validate") ELSE Exit(k, 1)
    /\ UNCHANGED cliframe

\* handleStartOrRun: validatePort(*port); os.Exit(1) on an error
CliValidate(k) ==
    /\ cli[k].pc = "validate"
    /\ IF ValidatePort(cli[k].cfg.port) THEN Exit(k, 1)
       ELSE Goto(k, cli[k].command)
    /\ UNCHANGED cliframe

\* handleStartOrRun, command "start": d.Start finds the service running and
\* spawns nothing
CliStartRunning(k) ==
    /\ cli[k].pc = "start"
    /\ Exit(k, 0)
    /\ UNCHANGED cliframe

\* handleStartOrRun, command "start": cmd.Start fails in d.Start
CliStartFail(k) ==
    /\ cli[k].pc = "start"
    /\ Exit(k, 1)
    /\ UNCHANGED cliframe

\* handleStartOrRun, command "start": d.Start spawns d.execPath with the
\* arguments it builds; main of the child has the first of them as its command
CliStart(k) ==
    /\ cli[k].pc = "start"
    /\ cli[2].pc = "none"
    /\ LET c == cli[k].cfg
           args == StartArgsWithLock(c.dir, c.port, c.bind, c.log, c.logDir,
                                     c.noLock)
       IN  cli' = [cli EXCEPT ![k].pc = "exited", ![k].exit = 0,
                              ![k].at = "start",
                              ![2] = Process("run", Tail(args))]
    /\ UNCHANGED cliframe

\* handleStartOrRun, command "run": logger.New or srv.Start fails
CliRunFail(k) ==
    /\ cli[k].pc = "run"
    /\ Exit(k, 1)
    /\ UNCHANGED cliframe

\* handleStartOrRun, command "run": the logger if *enableLog, the server with
\* the no-op lock system if *noLock, srv.Start()
CliRun(k) ==
    /\ cli[k].pc = "run"
    /\ cli' = [cli EXCEPT ![k].pc = "serving",
                          ![k].server = [up      |-> TRUE,
                                         noLock  |-> cli[k].cfg.noLock,
                                         logging |-> cli[k].cfg.log]]
    /\ UNCHANGED cliframe

InitCli ==
    /\ \E command \in {"start", "run"}, dir \in Dirs, port \in PortSamples,
          bind \in Binds, log \in BOOLEAN, logDir \in LogDirs,
          noLock \in BOOLEAN :
         cli = [k \in Cmds |->
                  IF k = 1
                  THEN Process(command,
                               UserArgs(dir, port, bind, log, logDir, noLock))
                  ELSE NoProcess]
    /\ file = Absent
    /\ NoCommands /\ NoRegistryCalls /\ NoLocking /\ NoRequests
    /\ NoServing /\ NoDav /\ NoProbes /\ NoRuns

NextCli ==
    \/ \E k \in Cmds : CliParse(k)
    \/ \E k \in Cmds : CliStat(k)
    \/ \E k \in Cmds : CliValidate(k)
    \/ \E k \in Cmds : CliStartRunning(k)
    \/ \E k \in Cmds : CliStartFail(k)
    \/ \E k \in Cmds : CliStart(k)
    \/ \E k \in Cmds : CliRunFail(k)
    \/ \E k \in Cmds : CliRun(k)

SpecCli == InitCli /\ [][NextCli]_vars

\* the child of `start` has been spawned
Spawned == cli[2].pc # "none"

\* argument a is among args
HasArg(args, a) == \E i \in 1..Len(args) : args[i] = a

\* flag name is among args with value v after it
HasFlagValue(args, name, v) ==
    \E i \in 1..(Len(args) - 1) : args[i] = Dashed(name) /\ args[i + 1] = v

\* the process has got through parsing, the folder test and validatePort, or
\* has been stopped by validatePort
PastValidate(k) ==
    \/ cli[k].pc \in {"start", "run", "serving"}
    \/ cli[k].pc = "exited" /\ cli[k].at \in {"validate", "start", "run"}

C29_PortRange ==
    \A k \in Cmds :
        /\ PastValidate(k)
             => ((cli[k].pc = "exited" /\ cli[k].at = "validate")
                   <=> cli[k].cfg.port \notin 1..65535)
        /\ (cli[k].pc = "exited" /\ cli[k].at = "validate")
             => /\ cli[k].exit # 0
                /\ ~cli[k].server.up
                /\ k = 1 => ~Spawned
        /\ (cli[k].server.up \/ (k = 1 /\ Spawned))
             => cli[k].cfg.port \in 1..65535

\* C29 witness: `run -port 80` serves, and so does `run -port 65535`; here
\* the privileged port
C29_Witness ==
    /\ cli[1].command = "run" /\ cli[1].cfg.port = 80
    /\ cli[1].server.up

(* ------------- the liveness probe (Manager.IsRunning) ------------------ *)

\* the process identifiers of the system, and the identifiers a probe is
\* given: also 0, negative ones, and one above every process
ProbePids == 1..MaxProbePid

ProbeIds == (0 - MaxProbePid)..(MaxProbePid + 1)

\* the probing process; every process leads a process group of its own,
\* named by its identifier
Prober == 1

\* what there is at an identifier: no process, a process the prober may
\* signal and query, or a process of another user
ProcKinds == {"none", "own", "foreign"}

\* kill(pid, 0) returns nil: for pid > 0 that process, for 0 the group of the
\* caller, for -1 every process the caller may signal but itself, for
\* pid < -1 the group -pid; ESRCH if there is none, EPERM if the caller may
\* signal none
KillZero(table, pid) ==
    IF pid > 0 THEN pid \in ProbePids /\ table[pid] = "own"
    ELSE IF pid = 0 THEN table[Prober] = "own"
    ELSE IF pid = -1 THEN \E q \in ProbePids \ {Prober} : table[q] = "own"
    ELSE (0 - pid) \in ProbePids /\ table[0 - pid] = "own"

\* unixManager.IsRunning: err := syscall.Kill(pid, 0); return err == nil
UnixIsRunning(table, pid) == KillZero(table, pid)

\* windowsManager.IsRunning: OpenProcess(PROCESS_QUERY_INFORMATION, false,
\* uint32(pid)) fails for 0, for an identifier of no process (uint32 of a
\* negative pid is above every identifier of the system) and for a process
\* of another user; the exit code of a running process is STILL_ACTIVE
WindowsIsRunning(table, pid) ==
    pid \in ProbePids /\ table[pid] = "own"

\* identifier id names a process that exists
NamesProcess(table, id) == id \in ProbePids /\ table[id] # "none"

prbframe ==
    <<file, supvars, regvars, lockvars, srvvars, runvars, davvars, clivars, obsvars>>

\* procMgr.IsRunning(id), of the build
ProbeIsRunning(id) ==
    /\ probe.n < MaxProbes
    /\ probe' = [probe EXCEPT
                   !.n = @ + 1,
                   !.last = [id     |-> id,
                             named  |-> NamesProcess(probe.table, id),
                             result |-> IF probe.platform = "unix"
                                        THEN UnixIsRunning(probe.table, id)
                                        ELSE WindowsIsRunning(probe.table, id)]]
    /\ UNCHANGED prbframe

\* a process other than the prober exits
ProbedExits(p) ==
    /\ p # Prober
    /\ probe.table[p] # "none"
    /\ probe' = [probe EXCEPT !.table[p] = "none"]
    /\ UNCHANGED prbframe

\* a process starts
ProbedStarts(p, kind) ==
    /\ probe.table[p] = "none"
    /\ probe' = [probe EXCEPT !.table[p] = kind]
    /\ UNCHANGED prbframe

NoProbe == [id |-> 0, named |-> FALSE, result |-> FALSE]

InitProbe ==
    /\ probe \in [platform : {"unix", "windows"},
                  table : {t \in [ProbePids -> ProcKinds] : t[Prober] = "own"},
                  n : {0},
                  last : {NoProbe}]
    /\ file = Absent
    /\ NoCommands /\ NoRegistryCalls /\ NoLocking /\ NoRequests
    /\ NoServing /\ NoDav /\ NoCli /\ NoRuns

NextProbe ==
    \/ \E id \in ProbeIds : ProbeIsRunning(id)
    \/ \E p \in ProbePids : ProbedExits(p)
    \/ \E p \in ProbePids, kind \in {"own", "foreign"} : ProbedStarts(p, kind)

SpecProbe == InitProbe /\ [][NextProbe]_vars

\* C30: IsRunning(id) is a total probe: for every identifier, including one
\* that names no existing process, it returns a boolean and raises no error,
\* and for an identifier that names no existing process it returns false.
C30_IsRunningIsTotal ==
    probe.n > 0
    => /\ probe.last.result \in BOOLEAN
       /\ ~probe.last.named => ~probe.last.result

-----------------------------------------------------------------------------
\* The lock system behind the delegated handler (NewWithLockSystem): the
\* permissive noOpLS of this repository, or the library's in-memory one.

StatusCreated == 201
StatusNoContent == 204
StatusConflict == 409
StatusPreconditionFailed == 412
StatusLocked == 423

\* the two resources of the served folder a client works on
ResX == "x"
ResY == "y"
Resources == {ResX, ResY}
\* the empty name: confirmLocks passes it for a request without destination
NoName == ""

\* "opaquelocktoken:"
OpaquePrefix ==
    <<"o", "p", "a", "q", "u", "e", "l", "o", "c", "k",
      "t", "o", "k", "e", "n", ":">>

\* fmt.Sprintf("opaquelocktoken:%d", now.UnixNano())
OpaqueToken(now) == OpaquePrefix \o Itoa(now)

\* the tokens a caller may present: issued by either lock system, or never
TokenSamples ==
    {OpaqueToken(t) : t \in 0..MaxNow} \cup {Itoa(g) : g \in 1..(MaxDavCalls + 2)}

\* the condition lists of an If header: none, or one token
CondSamples == {{}} \cup {{t} : t \in TokenSamples}

\* noOpLS.Confirm: the release function and no error
NoOpConfirm(now, name0, name1, conds) == "nil"

\* noOpLS.Create: a token made of the timestamp, and no error
NoOpCreate(now, root) == [token |-> OpaqueToken(now), err |-> "nil"]

\* noOpLS.Refresh: empty details and no error
NoOpRefresh(now, token) == "nil"

\* noOpLS.Unlock accepting only the tokens Create can have made so far
NoOpUnlockChecksToken(now, token) ==
    IF \E t \in 0..now : token = OpaqueToken(t) THEN "nil" ELSE "ErrNoSuchLock"

\* noOpLS.Unlock: no error
NoOpUnlock(now, token) == "nil"

\* memLS.lookup: the locks among the conditions that cover the name
MemLookup(locks, name, conds) ==
    {l \in locks : l.token \in conds /\ l.root = name}

\* memLS.Confirm: every non-empty name must be covered by a presented token
MemConfirm(locks, name0, name1, conds) ==
    IF \/ name0 # NoName /\ MemLookup(locks, name0, conds) = {}
       \/ name1 # NoName /\ MemLookup(locks, name1, conds) = {}
    THEN "ErrConfirmationFailed"
    ELSE "nil"

\* memLS.Create: refused while the name is locked, else the next token
MemCreate(locks, gen, root) ==
    IF \E l \in locks : l.root = root
    THEN [token |-> Empty, err |-> "ErrLocked"]
    ELSE [token |-> Itoa(gen + 1), err |-> "nil"]

\* memLS.Refresh and memLS.Unlock know the tokens of the locks held
MemKnows(locks, token) ==
    IF \E l \in locks : l.token = token THEN "nil" ELSE "ErrNoSuchLock"

\* the lock system always being the in-memory one
LockSystemAlwaysMem(noLock) == "mem"

\* NewWithLockSystem: the lock system the handler is built with
LockSystemOf(noLock) == IF noLock THEN "noop" ELSE "mem"

\* LockSystem.Confirm of the handler's lock system
LsConfirm(d, name0, name1, conds) ==
    IF d.ls = "noop"
    THEN NoOpConfirm(d.now, name0, name1, conds)
    ELSE MemConfirm(d.locks, name0, name1, conds)

\* LockSystem.Create of the handler's lock system: the error, the token and
\* the lock system afterwards
LsCreate(d, root) ==
    IF d.ls = "noop"
    THEN LET c == NoOpCreate(d.now, root)
         IN  [err |-> c.err, token |-> c.token,
              dav |-> [d EXCEPT !.issued = @ \cup {c.token}]]
    ELSE LET c == MemCreate(d.locks, d.gen, root)
         IN  [err |-> c.err, token |-> c.token,
              dav |-> IF c.err = "nil"
                      THEN [d EXCEPT !.locks = @ \cup {[token |-> c.token,
                                                        root |-> root]},
                                     !.gen = @ + 1,
                                     !.issued = @ \cup {c.token}]
                      ELSE d]

\* LockSystem.Refresh of the handler's lock system
LsRefresh(d, token) ==
    IF d.ls = "noop" THEN NoOpRefresh(d.now, token) ELSE MemKnows(d.locks, token)

\* LockSystem.Unlock of the handler's lock system: the error and the lock
\* system afterwards
LsUnlock(d, token) ==
    LET err == IF d.ls = "noop"
               THEN NoOpUnlock(d.now, token)
               ELSE MemKnows(d.locks, token)
    IN  [err |-> err,
         dav |-> IF err = "nil"
                 THEN [d EXCEPT !.locks = {l \in @ : l.token # token},
                                !.released = @ \cup {token}]
                 ELSE d]

\* webdav.Handler.confirmLocks: without an If header both names are locked
\* for the duration of the request, with one the lock system confirms the
\* presented tokens. Status 0 lets the request proceed.
ConfirmLocks(d, src, dst, conds) ==
    IF conds = {}
    THEN LET c0 == IF src # NoName
                   THEN LsCreate(d, src)
                   ELSE [err |-> "nil", token |-> Empty, dav |-> d]
         IN  IF c0.err # "nil"
             THEN [status |-> StatusLocked, dav |-> d]
             ELSE LET c1 == IF dst # NoName
                            THEN LsCreate(c0.dav, dst)
                            ELSE [err |-> "nil", token |-> Empty,
                                  dav |-> c0.dav]
                      r0(e) == IF src # NoName
                               THEN LsUnlock(e, c0.token).dav
                               ELSE e
                      r1(e) == IF dst # NoName
                               THEN LsUnlock(e, c1.token).dav
                               ELSE e
                  IN  IF c1.err # "nil"
                      THEN [status |-> StatusLocked, dav |-> r0(c0.dav)]
                      ELSE [status |-> 0, dav |-> r0(r1(c1.dav))]
    ELSE IF LsConfirm(d, src, dst, conds) = "nil"
         THEN [status |-> 0, dav |-> d]
         ELSE [status |-> StatusPreconditionFailed, dav |-> d]

\* webdav.Handler.handleLock with a lock body: the lock is created, and the
\* resource too when it did not exist
HandleLock(d, name) ==
    LET c == LsCreate(d, name)
    IN  IF c.err # "nil"
        THEN [status |-> StatusLocked, token |-> Empty, dav |-> d]
        ELSE [status |-> IF name \in d.tree THEN StatusOK ELSE StatusCreated,
              token |-> c.token,
              dav |-> [c.dav EXCEPT !.tree = @ \cup {name}]]

\* webdav.Handler.handlePut
HandlePut(d, name, conds) ==
    LET c == ConfirmLocks(d, name, NoName, conds)
    IN  IF c.status # 0
        THEN [status |-> c.status, token |-> Empty, dav |-> c.dav]
        ELSE [status |-> StatusCreated, token |-> Empty,
              dav |-> [c.dav EXCEPT !.tree = @ \cup {name}]]

\* webdav.Handler.handleCopyMove of a MOVE, and moveFiles
HandleMove(d, src, dst, overwrite, conds) ==
    IF dst = src
    THEN [status |-> StatusForbidden, token |-> Empty, dav |-> d]
    ELSE LET c == ConfirmLocks(d, src, dst, conds)
             created == dst \notin c.dav.tree
             cleared == c.dav.tree \ {dst}
         IN  IF c.status # 0
             THEN [status |-> c.status, token |-> Empty, dav |-> c.dav]
             ELSE IF ~created /\ ~overwrite
             THEN [status |-> StatusPreconditionFailed, token |-> Empty,
                   dav |-> c.dav]
             ELSE IF src \notin cleared
             THEN [status |-> StatusForbidden, token |-> Empty,
                   dav |-> [c.dav EXCEPT !.tree = cleared]]
             ELSE [status |-> IF created THEN StatusCreated
                              ELSE StatusNoContent,
                   token |-> Empty,
                   dav |-> [c.dav EXCEPT !.tree = (cleared \ {src}) \cup {dst}]]

\* webdav.Handler.handleUnlock
HandleUnlock(d, token) ==
    LET u == LsUnlock(d, token)
    IN  [status |-> IF u.err = "nil" THEN StatusNoContent ELSE StatusConflict,
         token |-> Empty, dav |-> u.dav]

davframe == <<file, supvars, regvars, lockvars, srvvars, runvars, clivars, prbvars, obsvars>>

LsOps == {"Confirm", "Create", "Refresh", "Unlock"}

\* what is kept of a call or a request: the call, its error or status, the
\* token it returned, the time, and whether the token it was given had been
\* issued, or unlocked, before
Reply(op, err, status, token, given) ==
    [op |-> op, err |-> err, status |-> status, token |-> token,
     now |-> dav.now, issued |-> given \in dav.issued,
     released |-> given \in dav.released]

\* time passes between two requests
DavTick ==
    /\ dav.now < MaxNow
    /\ dav' = [dav EXCEPT !.now = @ + 1]
    /\ UNCHANGED <<reply, davframe>>

\* a call of LockSystem.Confirm
CallConfirm(name0, name1, conds) ==
    /\ dav.calls < MaxDavCalls
    /\ dav' = [dav EXCEPT !.calls = @ + 1]
    /\ reply' = Reply("Confirm", LsConfirm(dav, name0, name1, conds), 0,
                      Empty, Empty)
    /\ UNCHANGED davframe

\* a call of LockSystem.Create
CallCreate(root) ==
    /\ dav.calls < MaxDavCalls
    /\ LET c == LsCreate(dav, root)
       IN  /\ dav' = [c.dav EXCEPT !.calls = @ + 1]
           /\ reply' = Reply("Create", c.err, 0, c.token, Empty)
    /\ UNCHANGED davframe

\* a call of LockSystem.Refresh
CallRefresh(token) ==
    /\ dav.calls < MaxDavCalls
    /\ dav' = [dav EXCEPT !.calls = @ + 1]
    /\ reply' = Reply("Refresh", LsRefresh(dav, token), 0, Empty, token)
    /\ UNCHANGED davframe

\* a call of LockSystem.Unlock
CallUnlock(token) ==
    /\ dav.calls < MaxDavCalls
    /\ LET u == LsUnlock(dav, token)
       IN  /\ dav' = [u.dav EXCEPT !.calls = @ + 1]
           /\ reply' = Reply("Unlock", u.err, 0, Empty, token)
    /\ UNCHANGED davframe

\* LOCK of a resource by another client
OtherLock(name) ==
    /\ dav.calls < MaxDavCalls
    /\ LET r == HandleLock(dav, name)
       IN  /\ dav' = [r.dav EXCEPT
                        !.calls = @ + 1,
                        !.others = IF r.status \in {StatusOK, StatusCreated}
                                   THEN @ \cup {name} ELSE @]
           /\ reply' = Reply("LOCK", "nil", r.status, r.token, Empty)
    /\ UNCHANGED davframe

\* UNLOCK by another client
OtherUnlock(token) ==
    /\ dav.calls < MaxDavCalls
    /\ LET r == HandleUnlock(dav, token)
       IN  /\ dav' = [r.dav EXCEPT !.calls = @ + 1]
           /\ reply' = Reply("UNLOCK", "nil", r.status, Empty, token)
    /\ UNCHANGED davframe

\* the client replacing ResY by way of ResX: LOCK ResX
ClientLock ==
    /\ dav.client.pc = "lock"
    /\ LET r == HandleLock(dav, ResX)
           ok == r.status \in {StatusOK, StatusCreated}
       IN  /\ dav' = [r.dav EXCEPT
                        !.client = [pc |-> IF ok THEN "put" ELSE "failed",
                                    token |-> r.token]]
           /\ reply' = Reply("LOCK", "nil", r.status, r.token, Empty)
    /\ UNCHANGED davframe

\* PUT ResX with the token in the If header
ClientPut ==
    /\ dav.client.pc = "put"
    /\ LET r == HandlePut(dav, ResX, {dav.client.token})
           ok == r.status = StatusCreated
       IN  /\ dav' = [r.dav EXCEPT
                        !.client.pc = IF ok THEN "move" ELSE "failed"]
           /\ reply' = Reply("PUT", "nil", r.status, Empty, dav.client.token)
    /\ UNCHANGED davframe

\* MOVE ResX to ResY with Overwrite: T and the token in the If header
ClientMove ==
    /\ dav.client.pc = "move"
    /\ LET r == HandleMove(dav, ResX, ResY, TRUE, {dav.client.token})
           ok == r.status \in {StatusCreated, StatusNoContent}
       IN  /\ dav' = [r.dav EXCEPT
                        !.client.pc = IF ok THEN "done" ELSE "failed"]
           /\ reply' = Reply("MOVE", "nil", r.status, Empty, dav.client.token)
    /\ UNCHANGED davframe

NoReply ==
    [op |-> "none", err |-> "nil", status |-> 0, token |-> Empty, now |-> 0,
     issued |-> FALSE, released |-> FALSE]

InitDav ==
    /\ \E noLock \in BOOLEAN, tree \in SUBSET Resources :
         dav = [noLock |-> noLock, ls |-> LockSystemOf(noLock), locks |-> {},
                gen |-> 0, tree |-> tree, now |-> 0, calls |-> 0,
                issued |-> {}, released |-> {}, others |-> {},
                client |-> [pc |-> "lock", token |-> Empty]]
    /\ reply = NoReply
    /\ file = Absent
    /\ NoCommands /\ NoRegistryCalls /\ NoLocking /\ NoRequests
    /\ NoServing /\ NoCli /\ NoProbes /\ NoRuns

NextDav ==
    \/ DavTick
    \/ \E name0 \in Resources, name1 \in Resources \cup {NoName},
          conds \in CondSamples : CallConfirm(name0, name1, conds)
    \/ \E root \in Resources : CallCreate(root)
    \/ \E token \in TokenSamples : CallRefresh(token)
    \/ \E token \in TokenSamples : CallUnlock(token)
    \/ \E name \in Resources : OtherLock(name)
    \/ \E token \in TokenSamples : OtherUnlock(token)
    \/ ClientLock
    \/ ClientPut
    \/ ClientMove

SpecDav == InitDav /\ [][NextDav]_vars

\* C25: with the permissive lock strategy every lock-system call succeeds:
\* Confirm, Create, Refresh and Unlock return no error whatever names,
\* conditions and tokens they are given and whatever was locked or unlocked
\* before, and the token Create returns is made of the request's timestamp.
C25_PermissiveAlwaysSucceeds ==
    (dav.noLock /\ reply.op \in LsOps)
    => /\ reply.err = "nil"
       /\ reply.op = "Create" => reply.token = OpaqueToken(reply.now)

\* an Unlock of a token that was never issued and was already unlocked once
\* has been answered
C25_Witness ==
    /\ dav.noLock
    /\ reply.op = "Unlock"
    /\ reply.err = "nil"
    /\ reply.released
    /\ ~reply.issued

C26_Done == dav.noLock => dav.client.pc # "failed"

C26_Step ==
    (dav.noLock /\ dav.client.pc = "move" /\ dav'.client.pc # "move")
    => /\ dav'.client.pc = "done"
       /\ reply'.status \in {StatusCreated, StatusNoContent}
       /\ ResY \in dav'.tree
       /\ ResX \notin dav'.tree

\* C26: with the permissive lock strategy the sequence LOCK x, PUT x with the
\* token, MOVE x to y with Overwrite and the same token succeeds at every
\* step whatever locks other clients hold on x or y, and after the MOVE y
\* exists and x does not.
C26_ReplaceThroughLockSucceeds == []C26_Done /\ [][C26_Step]_vars

\* the client is through while other clients have locked both resources
C26_Witness ==
    /\ dav.noLock
    /\ dav.client.pc = "done"
    /\ dav.others = Resources
    /\ reply.op = "MOVE"

-----------------------------------------------------------------------------
\* Further properties of the supervisor's commands.

\* C31: every `start`, `stop` and `status` acquires the registry lock before
\* its first Read and releases it on every path by which it returns, so that
\* a command that has returned does not hold the lock.
C31_LockAroundEveryCommand ==
    \A i \in Inv :
        /\ \A r \in Calls(i, "Read") : \E k \in Calls(i, "Lock") : k < r
        /\ Done(i)
             => /\ NCalls(i, "Lock") = 1
                /\ NCalls(i, "Unlock") = 1
                /\ inv[i].ops[Len(inv[i].ops)].op = "Unlock"

\* C35: when `stop` acts on a live Serving Process and Terminate succeeds,
\* the process has been asked to exit and is running its graceful shutdown;
\* it is ended without a drain only by the Kill fallback, after Terminate has
\* failed.
C35_TerminateIsCooperative ==
    [][\A i \in Inv :
          ( /\ inv[i].cmd = "stop" /\ inv[i].pc = "terminate"
            /\ inv'[i].pc = "remove"
            /\ procs[inv[i].pid] = "serving" )
          => procs'[inv[i].pid] = "draining"]_vars

\* C36: when `stop` returns success with "Service stopped", the process it
\* targeted is no longer live, so that a `start` issued right after it never
\* runs a new Serving Process next to the old one.
C36_StoppedMeansExited ==
    [][\A i \in Inv :
          (Returns(i, "stop") /\ inv'[i].report = "Service stopped")
          => ~Live(inv[i].pid)]_vars

-----------------------------------------------------------------------------
\* Further properties of the registry lock, the probe and the guard.

\* C32: the registry lock is exclusive for its path: a Lock() does not return
\* success while another process holds the lock it took and has not released,
\* also when the holder has removed the record or written it again since.
C32_LockIsExclusive ==
    [][\A h \in Handles :
          (CallReturns(h, "Lock") /\ last'.ok)
          => \A g \in Handles \ {h} : ~Holds(g)]_vars

\* a step of Lock() or Unlock(): the call goes on, or it returns
LockOrUnlockStep ==
    \/ hnd' # hnd
    \/ last'.seq # last.seq /\ last'.op \in {"Lock", "Unlock"}

\* C40: Lock() and Unlock() change who holds the lock and leave the record
\* alone: what Read() returns is the same after them as before, for an
\* absent, a corrupt and a valid record.
C40_LockLeavesRecordAlone ==
    [][LockOrUnlockStep => Read(file') = Read(file)]_vars

\* C38: IsRunning(id) is true for every identifier of an existing process,
\* also one the caller may not signal.
C38_IsRunningSeesEveryProcess ==
    (probe.n > 0 /\ probe.last.named) => probe.last.result

\* C39: the guard rejects a request only if its cleaned path has a segment
\* "..": every other request, such as one for /a..b, is passed on to the
\* delegated handler as it came.
C39_GuardRejectsOnlyTraversal ==
    ( /\ Got("guard")
      /\ \A k \in 1..Len(PathClean(req.path)) : PathClean(req.path)[k] # DotDot )
    => Forwarded
-----------------------------------------------------------------------------
\* The listener of the Serving Process.

C34_Done ==
    /\ run.pc = "listen" => run.listener = "nil"
    /\ (StartReturned /\ run.listener # "nil") => run.listener = "closed"

C34_Step ==
    /\ (run'.listener = "open" /\ run.listener # "open")
         => run.pc = "listen" /\ run.listener = "nil"
    /\ run.listener = "closed" => run'.listener = "closed"
    /\ (StartReturned \/ run.listener # "open") => run'.accepted = run.accepted

\* C34: the listener is bound at most once, in Start and not at
\* construction, and it is released, for good, on every path by which Start
\* returns after a successful bind (shutdown drained or timed out, fatal
\* serving error); once Start has returned no connection is accepted on it.
C34_ListenerBoundAndReleasedOnce == []C34_Done /\ [][C34_Step]_vars

\* Start has returned from a shutdown that timed out, and the listener is
\* closed
C34_Witness ==
    /\ StartReturned
    /\ run.ret = "shutdown failed"
    /\ run.listener = "closed"
    /\ InFlight
-----------------------------------------------------------------------------
\* The supervisor on a system where other programs run too: the operating
\* system gives the identifier of a process that has exited to a new one.

\* a process that is no Serving Process starts, under a free identifier
ProcStartsOther(p) ==
    /\ p \in FreePids
    /\ procs' = [procs EXCEPT ![p] = "other"]
    /\ UNCHANGED <<file, inv, everSpawned>>

NextReuse ==
    \/ Next
    \/ \E p \in Pids : ProcStartsOther(p) /\ UNCHANGED aside

SpecReuse == Init /\ [][NextReuse]_vars

\* C37: `stop` sends Terminate and Kill only to a process spawned by a
\* `start` of this service, and `start` reports "already running" only when
\* such a process is live: a recorded identifier that now names another
\* program's process is taken as stale.
C37_OnlyTheServiceIsSignalled ==
    [][\A i \in Inv :
          /\ ( /\ inv[i].cmd = "stop" /\ inv[i].pc \in {"terminate", "kill"}
               /\ StepOf(i) )
             => procs[inv[i].pid] # "other"
          /\ ( /\ Returns(i, "start")
               /\ inv'[i].report = "Service is already running" )
             => inv[i].pid \in Serving]_vars
-----------------------------------------------------------------------------
\* Commands run one after the other, each in a process of its own (main
\* builds a new Daemon every time), with what each found and left.

\* what a command finds: the record as Read tells it, and whether the
\* recorded process is live
Found(f) == [rec |-> Read(f), live |-> Live(Read(f).pid)]

Unseen == [pre |-> <<>>, post |-> <<>>]

\* no other command is in progress
Alone(i) == \A k \in Inv \ {i} : ~Active(k)

\* invocation i takes a step: its first one tells what it found, its last
\* one what it left
Observe(i) ==
    seen' = [seen EXCEPT ![i] =
               [pre  |-> IF inv[i].pc = "idle" THEN <<Found(file)>> ELSE @.pre,
                post |-> IF inv'[i].pc = "done" THEN <<Read(file')>>
                         ELSE @.post]]

InitRuns ==
    /\ file \in InitFiles
    /\ procs \in InitProcs
    /\ \A p \in Pids : procs[p] = "serving" => file = Content(Itoa(p))
    /\ inv = [i \in Inv |-> Idle]
    /\ everSpawned = {p \in Pids : procs[p] = "serving"}
    /\ seen = [i \in Inv |-> Unseen]
    /\ NoRegistryCalls /\ NoLocking /\ NoRequests
    /\ NoServing /\ NoDav /\ NoCli /\ NoProbes

NextRuns ==
    \/ \E i \in Inv : Alone(i) /\ StartRead(i) /\ Observe(i) /\ UNCHANGED beside
    \/ \E i \in Inv : StartIsRunning(i) /\ Observe(i) /\ UNCHANGED beside
    \/ \E i \in Inv : StartRemove(i) /\ Observe(i) /\ UNCHANGED beside
    \/ \E i \in Inv : StartSpawnFail(i) /\ Observe(i) /\ UNCHANGED beside
    \/ \E i \in Inv : StartSpawn(i) /\ Observe(i) /\ UNCHANGED beside
    \/ \E i \in Inv : StartWrite(i) /\ Observe(i) /\ UNCHANGED beside
    \/ \E i \in Inv : StartWriteFail(i) /\ Observe(i) /\ UNCHANGED beside
    \/ \E i \in Inv : StartKill(i) /\ Observe(i) /\ UNCHANGED beside
    \/ \E i \in Inv : Alone(i) /\ StopRead(i) /\ Observe(i) /\ UNCHANGED beside
    \/ \E i \in Inv : StopIsRunning(i) /\ Observe(i) /\ UNCHANGED beside
    \/ \E i \in Inv : StopRemoveStale(i) /\ Observe(i) /\ UNCHANGED beside
    \/ \E i \in Inv : StopTerminate(i) /\ Observe(i) /\ UNCHANGED beside
    \/ \E i \in Inv : StopKill(i) /\ Observe(i) /\ UNCHANGED beside
    \/ \E i \in Inv : StopRemove(i) /\ Observe(i) /\ UNCHANGED beside
    \/ \E i \in Inv : Alone(i) /\ StatusRead(i) /\ Observe(i) /\ UNCHANGED beside
    \/ \E i \in Inv : StatusIsRunning(i) /\ Observe(i) /\ UNCHANGED beside
    \/ \E i \in Inv : StatusRemoveStale(i) /\ Observe(i) /\ UNCHANGED beside
    \/ \E p \in Pids : ProcExit(p) /\ UNCHANGED <<seen, beside>>

SpecRuns == InitRuns /\ [][NextRuns]_vars

\* the registry invocation i left, told without the identifier the operating
\* system chose for a new process: the outcome of Read, and whether the
\* record is that of the process i spawned or the one i found
Left(i) ==
    LET post == seen[i].post[1]
        pre == seen[i].pre[1].rec
    IN  IF post.err # "nil" THEN post.err
        ELSE IF inv[i].child # 0 /\ post.pid = inv[i].child THEN "child"
        ELSE IF pre.err = "nil" /\ post.pid = pre.pid THEN "kept"
        ELSE "other"

\* two runs of the same command that found the same record and the same
\* liveness of the recorded process
SameStart(i, j) ==
    /\ i # j
    /\ Done(i) /\ Done(j)
    /\ inv[i].cmd = inv[j].cmd
    /\ seen[i].pre = seen[j].pre

SameOutcome(i, j) ==
    /\ inv[i].report = inv[j].report
    /\ inv[i].ret = inv[j].ret
    /\ Left(i) = Left(j)

\* the system calls of the two runs had the same outcomes, and Write, if it
\* was called, did not fail (a failed Write leaves what the system left)
SameAnswers(i, j) ==
    /\ inv[i].ops = inv[j].ops
    /\ \A k \in 1..Len(inv[i].ops) : inv[i].ops[k] # Op("Write", FALSE)

=============================================================================
